---- MODULE Spec2Model ----
(***************************************************************************)
(* Model of the BibTeX entry view plugin (cache revision, part_004 1-588): *)
(* the entry cache and its loads, the field sort/filter engine and the     *)
(* code block lookup.  Strings are sequences of one-character strings so   *)
(* that toLowerCase, trim and join are computed, not assumed.              *)
(***************************************************************************)
EXTENDS Integers, Sequences, FiniteSets, TLC

\* ------------------------------------------------------------------ bounds
MaxLoads == 2
MaxCached == 52
MaxFields == 3
MaxOrder == 3
MaxEntries == 2
MaxTexts == 2

\* ----------------------------------------------------------------- strings
UpperLetters == <<"A","B","C","D","E","F","G","H","I","J","K","L","M",
                  "N","O","P","Q","R","S","T","U","V","W","X","Y","Z">>

LowerLetters == <<"a","b","c","d","e","f","g","h","i","j","k","l","m",
                  "n","o","p","q","r","s","t","u","v","w","x","y","z">>

\* the lowercase letter of every uppercase letter
UpperToLower ==
    [c \in {UpperLetters[i] : i \in 1..Len(UpperLetters)} |->
        LowerLetters[CHOOSE i \in 1..Len(UpperLetters) : UpperLetters[i] = c]]

LowerChar(c) == IF c \in DOMAIN UpperToLower THEN UpperToLower[c] ELSE c

\* String.prototype.toLowerCase
ToLowerCase(s) == [i \in 1..Len(s) |-> LowerChar(s[i])]

IsSpace(c) == c \in {" ", "\t", "\n"}

RECURSIVE TrimStart(_)
TrimStart(s) ==
    IF s # <<>> /\ IsSpace(Head(s)) THEN TrimStart(Tail(s)) ELSE s

RECURSIVE TrimEnd(_)
TrimEnd(s) ==
    IF s # <<>> /\ IsSpace(s[Len(s)]) THEN TrimEnd(SubSeq(s, 1, Len(s) - 1)) ELSE s

\* String.prototype.trim
Trim(s) == TrimEnd(TrimStart(s))

\* Array.prototype.join
RECURSIVE Join(_, _)
Join(parts, sep) ==
    IF parts = <<>> THEN <<>>
    ELSE IF Len(parts) = 1 THEN parts[1]
    ELSE parts[1] \o sep \o Join(Tail(parts), sep)

\* Array.prototype.map
MapSeq(Op(_), s) == [i \in 1..Len(s) |-> Op(s[i])]

\* Array.prototype.filter
RECURSIVE FilterSeq(_, _)
FilterSeq(Test(_), s) ==
    IF s = <<>> THEN <<>>
    ELSE IF Test(Head(s)) THEN <<Head(s)>> \o FilterSeq(Test, Tail(s))
    ELSE FilterSeq(Test, Tail(s))

\* Array.prototype.includes
Includes(s, x) == \E i \in 1..Len(s) : s[i] = x

\* Array.prototype.indexOf (0-based, -1 when absent)
IndexOf(s, x) ==
    IF Includes(s, x)
    THEN (CHOOSE i \in 1..Len(s) : s[i] = x /\ \A j \in 1..(i - 1) : s[j] # x) - 1
    ELSE -1

\* Array.prototype.findIndex (0-based, -1 when absent)
FindIndex(Test(_), s) ==
    IF \E i \in 1..Len(s) : Test(s[i])
    THEN (CHOOSE i \in 1..Len(s) : Test(s[i]) /\ \A j \in 1..(i - 1) : ~Test(s[j])) - 1
    ELSE -1

\* Array.prototype.splice(index, 1): the array without its element at the
\* 0-based index
RemoveAt(s, index) == SubSeq(s, 1, index) \o SubSeq(s, index + 2, Len(s))

\* Array.prototype.sort with a comparator: stable (ES2019), an element goes
\* after every element that does not compare greater than it
RECURSIVE InsertSorted(_, _, _)
InsertSorted(Cmp(_, _), sorted, x) ==
    IF sorted = <<>> THEN <<x>>
    ELSE IF Cmp(sorted[Len(sorted)], x) <= 0 THEN Append(sorted, x)
    ELSE Append(InsertSorted(Cmp, SubSeq(sorted, 1, Len(sorted) - 1), x),
                sorted[Len(sorted)])

RECURSIVE SortBy(_, _)
SortBy(Cmp(_, _), s) ==
    IF s = <<>> THEN <<>>
    ELSE InsertSorted(Cmp, SortBy(Cmp, SubSeq(s, 1, Len(s) - 1)), s[Len(s)])

\* ------------------------------------------------------------ string values
AUTHOR == <<"a","u","t","h","o","r">>
EDITOR == <<"e","d","i","t","o","r">>
ENTRYTYPE == <<"e","n","t","r","y","t","y","p","e">>
YEAR == <<"y","e","a","r">>
TITLE == <<"t","i","t","l","e">>
NOTE == <<"n","o","t","e">>
AUTHOR_UC == <<"A","u","t","h","o","r">>
EDITOR_UC == <<"E","D","I","T","O","R">>
TITLE_UC == <<"T","i","t","l","e">>
ENTRYTYPE_UC == <<"E","n","t","r","y","T","y","p","e">>
AND_SEP == <<" ","a","n","d"," ">>
SPACE == <<" ">>

UNDEFINED_STR == <<"u","n","d","e","f","i","n","e","d">>
OBJECT_STR == <<"[","o","b","j","e","c","t"," ","O","b","j","e","c","t","]">>

\* ------------------------------------------------- sort / filter engine
\* a FieldNameAndValue
Field(name, value) == [fieldName |-> name, fieldValue |-> value]

\* the comparator with its difference the wrong way round
CompareBySortIndex_Reversed(priorityOrder, a, b) ==
    LET sortIndexA == IndexOf(priorityOrder, ToLowerCase(a.fieldName))
        sortIndexB == IndexOf(priorityOrder, ToLowerCase(b.fieldName))
    IN  IF sortIndexA # -1 /\ sortIndexB # -1 THEN sortIndexB - sortIndexA
        ELSE 0

\* the comparator of fieldsToRender.sort
CompareBySortIndex(priorityOrder, a, b) ==
    LET fieldNameA == ToLowerCase(a.fieldName)
        fieldNameB == ToLowerCase(b.fieldName)
        sortIndexA == IndexOf(priorityOrder, fieldNameA)
        sortIndexB == IndexOf(priorityOrder, fieldNameB)
    IN  IF sortIndexA # -1 /\ sortIndexB # -1 THEN sortIndexA - sortIndexB
        ELSE 0

\* the inclusion filter left out
FilterToRender_KeepAll(allParsedFields, priorityOrder) == allParsedFields

\* the inclusion filter: the fields whose lowercased name is in priorityOrder
FilterToRender(allParsedFields, priorityOrder) ==
    FilterSeq(LAMBDA field : Includes(priorityOrder, ToLowerCase(field.fieldName)),
              allParsedFields)

\* the primary field looked for in the wrong order: editor, else author
PrimaryIndex_EditorFirst(fieldsToRender) ==
    LET authorIndex == FindIndex(LAMBDA f : ToLowerCase(f.fieldName) = AUTHOR,
                                 fieldsToRender)
        editorIndex == FindIndex(LAMBDA f : ToLowerCase(f.fieldName) = EDITOR,
                                 fieldsToRender)
    IN  IF editorIndex # -1 THEN editorIndex ELSE authorIndex

\* the index of the primary field in fieldsToRender: author, else editor,
\* else -1
PrimaryIndex(fieldsToRender) ==
    LET authorIndex == FindIndex(LAMBDA f : ToLowerCase(f.fieldName) = AUTHOR,
                                 fieldsToRender)
        editorIndex == FindIndex(LAMBDA f : ToLowerCase(f.fieldName) = EDITOR,
                                 fieldsToRender)
    IN  IF authorIndex # -1 THEN authorIndex ELSE editorIndex

\* input.fields after the call when the entrytype field is pushed on the
\* array of the caller
FieldsAfterCall_Aliased(input) == Append(input.fields, Field(ENTRYTYPE, input.entryType))

\* input.fields after the call: allParsedFields is a copy ([...fields]), and
\* filter, splice and sort work on arrays made from the copy
FieldsAfterCall(input) == input.fields

\* the function without the push of the entrytype field
formatAndSortBibtexFields_NoEntryType(input, fieldSortOrder) ==
    LET priorityOrder == MapSeq(ToLowerCase, fieldSortOrder)
        fieldsToRender == FilterToRender(input.fields, priorityOrder)
        primaryIndex == PrimaryIndex(fieldsToRender)
        rest == IF primaryIndex # -1 THEN RemoveAt(fieldsToRender, primaryIndex)
                ELSE fieldsToRender
        sorted == SortBy(LAMBDA a, b : CompareBySortIndex(priorityOrder, a, b), rest)
    IN  [entryType |-> input.entryType, bibkey |-> input.bibkey,
         fields |-> IF primaryIndex # -1
                    THEN <<fieldsToRender[primaryIndex + 1]>> \o sorted
                    ELSE sorted]

\* BibtexEntryViewPlugin.formatAndSortBibtexFields; fieldSortOrder is
\* this.settings.fieldSortOrder
formatAndSortBibtexFields(input, fieldSortOrder) ==
    LET allParsedFields == Append(input.fields, Field(ENTRYTYPE, input.entryType))
        priorityOrder == MapSeq(ToLowerCase, fieldSortOrder)
        fieldsToRender == FilterToRender(allParsedFields, priorityOrder)
        primaryIndex == PrimaryIndex(fieldsToRender)
        rest == IF primaryIndex # -1 THEN RemoveAt(fieldsToRender, primaryIndex)
                ELSE fieldsToRender
        sorted == SortBy(LAMBDA a, b : CompareBySortIndex(priorityOrder, a, b), rest)
        sortedFields == IF primaryIndex # -1
                        THEN <<fieldsToRender[primaryIndex + 1]>> \o sorted
                        ELSE sorted
    IN  [entryType |-> input.entryType, bibkey |-> input.bibkey,
         fields |-> sortedFields]

\* ---------------------------------------------------------- entry cache
\* a value of entry.fields as the parser library returns it: a plain string,
\* an array of strings or an array of creators
StringValue(str) == [kind |-> "string", str |-> str, list |-> <<>>]
StringsValue(list) == [kind |-> "strings", str |-> <<>>, list |-> list]
CreatorsValue(list) == [kind |-> "creators", str |-> <<>>, list |-> list]

\* a Creator with the name parts it has (an absent part is not in has)
Person(firstName, lastName) ==
    [has |-> {"firstName", "lastName"}, firstName |-> firstName,
     lastName |-> lastName, name |-> <<>>]
FamilyOnly(lastName) ==
    [has |-> {"lastName"}, firstName |-> <<>>, lastName |-> lastName, name |-> <<>>]
Institution(name) ==
    [has |-> {"name"}, firstName |-> <<>>, lastName |-> <<>>, name |-> name]

\* `${creator.firstName || ''} ${creator.lastName}`.trim()
CreatorText(creator) ==
    LET first == IF "firstName" \in creator.has THEN creator.firstName ELSE <<>>
        last == IF "lastName" \in creator.has THEN creator.lastName ELSE UNDEFINED_STR
    IN  Trim(first \o SPACE \o last)

\* the conversion of one library value to the display string
FieldValueOf(value) ==
    IF value.kind = "string" THEN value.str
    ELSE IF value.kind = "strings" THEN Join(value.list, SPACE)
    ELSE IF Len(value.list) > 0 /\ "lastName" \in value.list[1].has
         THEN Join(MapSeq(CreatorText, value.list), AND_SEP)
    ELSE Join(MapSeq(LAMBDA c : OBJECT_STR, value.list), SPACE)

\* Object.entries(entry.fields).map(...): name lowercased, value converted
ConvertFields(fields) ==
    MapSeq(LAMBDA f : Field(ToLowerCase(f.fieldName), FieldValueOf(f.value)), fields)

\* the pre-computation step without its toLowerCase
SearchableText_NotLowered(formattedEntry, fieldSortOrder) ==
    Join(<<formattedEntry.bibkey>>
           \o [i \in 1..Len(formattedEntry.fields) |-> formattedEntry.fields[i].fieldValue],
         SPACE)

\* the pre-computation step: bibkey and the displayed values, joined, lowercased
SearchableText(formattedEntry, fieldSortOrder) ==
    LET fieldsToSearch == MapSeq(ToLowerCase, fieldSortOrder)
        searched == FilterSeq(LAMBDA field :
                                  Includes(fieldsToSearch, ToLowerCase(field.fieldName)),
                              formattedEntry.fields)
        textParts == <<formattedEntry.bibkey>>
                       \o MapSeq(LAMBDA field : field.fieldValue, searched)
    IN  ToLowerCase(Join(textParts, SPACE))

\* a CachedBibEntry for one library entry
CachedBibEntry(entry, fieldSortOrder) ==
    LET formattedEntry ==
            formatAndSortBibtexFields([entryType |-> entry.type, bibkey |-> entry.key,
                                       fields |-> ConvertFields(entry.fields)],
                                      fieldSortOrder)
    IN  [formattedEntry |-> formattedEntry,
         searchableText |-> SearchableText(formattedEntry, fieldSortOrder)]

\* the Map: a sequence of <<key, value>> in insertion order
MapHas(m, k) == \E i \in 1..Len(m) : m[i][1] = k
MapGet(m, k) == m[CHOOSE i \in 1..Len(m) : m[i][1] = k][2]
MapKeys(m) == {m[i][1] : i \in 1..Len(m)}

\* a set that keeps the value of a present key
MapSet_KeepFirst(m, k, v) ==
    IF \E i \in 1..Len(m) : m[i][1] = k THEN m ELSE Append(m, <<k, v>>)

\* Map.prototype.set: a present key keeps its place and gets the new value
MapSet(m, k, v) ==
    IF MapHas(m, k)
    THEN [i \in 1..Len(m) |-> IF m[i][1] = k THEN <<k, v>> ELSE m[i]]
    ELSE Append(m, <<k, v>>)

\* the loop of parseAndCacheBibtex over bibtex.entries: every entry with a
\* key is set in the Map, in order (the first half of the entries, then the
\* second half)
RECURSIVE CacheEntries(_, _, _)
CacheEntries(cache, entries, fieldSortOrder) ==
    IF entries = <<>> THEN cache
    ELSE IF Len(entries) = 1
    THEN IF entries[1].key = <<>> THEN cache
         ELSE MapSet(cache, entries[1].key, CachedBibEntry(entries[1], fieldSortOrder))
    ELSE LET half == Len(entries) \div 2
             first == CacheEntries(cache, SubSeq(entries, 1, half), fieldSortOrder)
         IN  IF first = <<>>
             THEN CacheEntries(<<>>, SubSeq(entries, half + 1, Len(entries)),
                               fieldSortOrder)
             ELSE CacheEntries(first, SubSeq(entries, half + 1, Len(entries)),
                               fieldSortOrder)

\* --------------------------------------------------------------- suggester
MIN_QUERY_LENGTH == 2
MAX_SUGGESTIONS == 50

DigitChars == <<"0","1","2","3","4","5","6","7","8","9">>
DigitSet == {DigitChars[i] : i \in 1..Len(DigitChars)}
LowerSet == {LowerLetters[i] : i \in 1..Len(LowerLetters)}

\* the characters of the class [\s,.:;!?()"] of the word split
WordSeparators == {" ", "\t", "\n", ",", ".", ":", ";", "!", "?", "(", ")", "\""}

\* String.prototype.split on single characters: the pieces between them,
\* the empty ones included; i is the position read, cur the piece so far
RECURSIVE SplitFrom(_, _, _, _)
SplitFrom(s, seps, i, cur) ==
    IF i > Len(s) THEN <<cur>>
    ELSE IF s[i] \in seps THEN <<cur>> \o SplitFrom(s, seps, i + 1, <<>>)
    ELSE SplitFrom(s, seps, i + 1, Append(cur, s[i]))

NonEmpty(w) == Len(w) > 0

\* query.split(' ').filter(w => w.length > 0)
QueryParts(query) == FilterSeq(NonEmpty, SplitFrom(query, {" "}, 1, <<>>))

\* searchableText.split(/[\s,.:;!?()"]+/).filter(w => w.length > 0): a run
\* of separators splits as one separator does once the empty pieces are gone
EntryWords(searchableText) ==
    FilterSeq(NonEmpty, SplitFrom(searchableText, WordSeparators, 1, <<>>))

\* the class of a character for /[a-z]+|\d+/
CharKind(c) == IF c \in LowerSet THEN "letter"
               ELSE IF c \in DigitSet THEN "digit" ELSE "other"

\* part.match(/[a-z]+|\d+/g) || []: the maximal runs of lowercase letters
\* and of digits, left to right
RECURSIVE MatchRuns(_, _, _)
MatchRuns(part, i, cur) ==
    IF i > Len(part) THEN (IF cur = <<>> THEN <<>> ELSE <<cur>>)
    ELSE IF CharKind(part[i]) = "other"
         THEN (IF cur = <<>> THEN <<>> ELSE <<cur>>) \o MatchRuns(part, i + 1, <<>>)
    ELSE IF cur # <<>> /\ CharKind(cur[1]) # CharKind(part[i])
         THEN <<cur>> \o MatchRuns(part, i + 1, <<part[i]>>)
    ELSE MatchRuns(part, i + 1, Append(cur, part[i]))

\* Array.prototype.flatMap of the parts of the query
RECURSIVE FlatMapRuns(_)
FlatMapRuns(parts) ==
    IF parts = <<>> THEN <<>>
    ELSE MatchRuns(Head(parts), 1, <<>>) \o FlatMapRuns(Tail(parts))

QueryTokens(query) == FlatMapRuns(QueryParts(query))

\* a comparison of the whole word in place of includes
StringIncludes_Equal(word, token) == word = token

\* String.prototype.includes
StringIncludes(word, token) ==
    \E i \in 0..(Len(word) - Len(token)) : SubSeq(word, i + 1, i + Len(token)) = token

\* queryTokens.every(token => entryWords.some(w => w.includes(token)))
IsMatch_AnyToken(queryTokens, entryWords) ==
    \E t \in 1..Len(queryTokens) :
        \E w \in 1..Len(entryWords) : StringIncludes(entryWords[w], queryTokens[t])

IsMatch(queryTokens, entryWords) ==
    \A t \in 1..Len(queryTokens) :
        \E w \in 1..Len(entryWords) : StringIncludes(entryWords[w], queryTokens[t])

\* the first-level weight of a character in the collation of localeCompare:
\* digits before letters, a letter with its capital, the rest before both
CollationWeight ==
    [c \in DigitSet \cup LowerSet |->
        IF c \in DigitSet THEN CHOOSE i \in 1..10 : DigitChars[i] = c
        ELSE 10 + CHOOSE i \in 1..26 : LowerLetters[i] = c]

Weight(c) == IF LowerChar(c) \in DOMAIN CollationWeight
             THEN CollationWeight[LowerChar(c)] ELSE 0

\* the comparison of the weights from position i on: -1, 0 or 1
RECURSIVE CompareWeights(_, _, _)
CompareWeights(a, b, i) ==
    IF i > Len(a) /\ i > Len(b) THEN 0
    ELSE IF i > Len(a) THEN -1
    ELSE IF i > Len(b) THEN 1
    ELSE IF Weight(a[i]) < Weight(b[i]) THEN -1
    ELSE IF Weight(a[i]) > Weight(b[i]) THEN 1
    ELSE CompareWeights(a, b, i + 1)

\* strings of equal weights: the lowercase letter first where they differ
CompareCase(a, b) ==
    IF a = b THEN 0
    ELSE LET i == CHOOSE k \in 1..Len(a) : a[k] # b[k] /\ \A j \in 1..(k - 1) : a[j] = b[j]
         IN  IF a[i] \in LowerSet THEN -1 ELSE 1

\* String.prototype.localeCompare on keys of letters and digits
LocaleCompare(a, b) ==
    IF CompareWeights(a, b, 1) # 0 THEN CompareWeights(a, b, 1)
    ELSE CompareCase(a, b)

CompareBibkey(x, y) == LocaleCompare(x.bibkey, y.bibkey)

\* the loop of getSuggestions with > for >= in the test of its break
RECURSIVE CollectSuggestions_LateBreak(_, _, _, _, _)
CollectSuggestions_LateBreak(cache, queryTokens, lo, hi, found) ==
    IF Len(found) > MAX_SUGGESTIONS \/ lo > hi THEN found
    ELSE IF lo = hi
    THEN IF IsMatch(queryTokens, EntryWords(cache[lo][2].searchableText))
         THEN Append(found, cache[lo][2].formattedEntry)
         ELSE found
    ELSE CollectSuggestions_LateBreak(cache, queryTokens, ((lo + hi) \div 2) + 1, hi,
            CollectSuggestions_LateBreak(cache, queryTokens, lo, (lo + hi) \div 2, found))

\* the loop of getSuggestions over the values lo..hi of the Map, in its
\* order: a match is pushed, and nothing is pushed once MAX_SUGGESTIONS
\* are found (the break)
RECURSIVE CollectSuggestions(_, _, _, _, _)
CollectSuggestions(cache, queryTokens, lo, hi, found) ==
    IF Len(found) >= MAX_SUGGESTIONS \/ lo > hi THEN found
    ELSE IF lo = hi
    THEN IF IsMatch(queryTokens, EntryWords(cache[lo][2].searchableText))
         THEN Append(found, cache[lo][2].formattedEntry)
         ELSE found
    ELSE CollectSuggestions(cache, queryTokens, ((lo + hi) \div 2) + 1, hi,
            CollectSuggestions(cache, queryTokens, lo, (lo + hi) \div 2, found))

\* Array.prototype.sort with a comparator that orders the elements: each
\* goes after the elements that compare smaller and after the earlier ones
\* that compare equal
SortStable(Cmp(_, _), s) ==
    LET place == [i \in 1..Len(s) |->
                    1 + Cardinality({j \in 1..Len(s) :
                            \/ Cmp(s[j], s[i]) < 0
                            \/ Cmp(s[j], s[i]) = 0 /\ j < i})]
    IN  [k \in 1..Len(s) |-> s[CHOOSE i \in 1..Len(s) : place[i] = k]]

\* getSuggestions without the test of the length of the query
getSuggestions_NoMinLength(cache, contextQuery) ==
    LET queryTokens == QueryTokens(ToLowerCase(contextQuery))
    IN  IF Len(queryTokens) = 0 THEN <<>>
        ELSE SortStable(CompareBibkey,
                        CollectSuggestions(cache, queryTokens, 1, Len(cache), <<>>))

\* BibkeySuggester.getSuggestions on a cache and context.query
getSuggestions(cache, contextQuery) ==
    LET query == ToLowerCase(contextQuery)
        queryTokens == QueryTokens(query)
    IN  IF Len(query) < MIN_QUERY_LENGTH THEN <<>>
        ELSE IF Len(queryTokens) = 0 THEN <<>>
        ELSE SortStable(CompareBibkey,
                        CollectSuggestions(cache, queryTokens, 1, Len(cache), <<>>))

\* ------------------------------------------------------------- test data
DOE2020 == <<"d","o","e","2","0","2","0">>
SMITH99 == <<"s","m","9","9">>
XYZ999 == <<"x","y","z">>
ARTICLE == <<"a","r","t","i","c","l","e">>
BOOK == <<"b","o","o","k">>
JANE == <<"J","a","n","e">>
DOE == <<"D","o","e">>
SMITH == <<"S","m","i","t","h">>
ACME == <<"A","c","m","e">>
Y2020 == <<"2","0","2","0">>
STUDY == <<"A"," ","S","t","u","d","y">>
DRAFT == <<"D","r","a","f","t">>
Digit == <<"1","2","3","4","5","6","7","8","9">>

\* the value carried by the field or entry at a position
ValueAt(pos) ==
    IF pos <= 9 THEN <<"V", Digit[pos]>>
    ELSE <<"V", DigitChars[(pos \div 10) + 1], DigitChars[(pos % 10) + 1]>>

\* one entry of bibtex.entries and one of its fields
LibEntry(key, type, fields) == [key |-> key, type |-> type, fields |-> fields]
LibField(name, value) == [fieldName |-> name, value |-> value]

\* The text of a file is a sequence of records, each given by its key and
\* the shape of its fields, or a text the parser throws on.  The fields of a
\* record of each shape; pos is the position of the record in the text.
ShapeFields(shape, pos) ==
    CASE shape = "study" ->
            <<LibField(AUTHOR, CreatorsValue(<<Person(JANE, DOE)>>)),
              LibField(YEAR, StringValue(Y2020)),
              LibField(TITLE, StringValue(STUDY)),
              LibField(NOTE, StringValue(DRAFT))>>
      [] shape = "authored" ->
            <<LibField(TITLE, StringValue(ValueAt(pos))),
              LibField(AUTHOR_UC, CreatorsValue(<<Person(JANE, DOE), FamilyOnly(SMITH)>>)),
              LibField(NOTE, StringValue(DRAFT \o ValueAt(pos)))>>
      [] shape = "edited" ->
            <<LibField(YEAR, StringsValue(<<Y2020, ValueAt(pos)>>)),
              LibField(EDITOR, CreatorsValue(<<Institution(ACME)>>))>>
      [] OTHER -> <<>>

ShapeType(shape) == IF shape = "study" THEN ARTICLE ELSE BOOK

Text(records) == [bad |-> FALSE, records |-> records]
UnparsableText == [bad |-> TRUE, records |-> <<>>]

\* bibtexParse(content): what the parser library makes of a text, its
\* entries in the order of the records, or an exception
bibtexParse(content) ==
    [throws |-> content.bad,
     entries |-> [i \in 1..Len(content.records) |->
                     LibEntry(content.records[i][1],
                              ShapeType(content.records[i][2]),
                              ShapeFields(content.records[i][2], i))]]

\* parseAndCacheBibtex that adds the entries it parsed after those the Map
\* holds
parseAndCacheBibtex_Accumulate(cache, content, fieldSortOrder) ==
    IF bibtexParse(content).throws THEN cache
    ELSE cache \o CacheEntries(<<>>, bibtexParse(content).entries, fieldSortOrder)

\* parseAndCacheBibtex without its clear: the entries are set in the Map as
\* it stands
parseAndCacheBibtex_NoClear(cache, content, fieldSortOrder) ==
    IF bibtexParse(content).throws THEN cache
    ELSE CacheEntries(cache, bibtexParse(content).entries, fieldSortOrder)

\* BibtexEntryViewPlugin.parseAndCacheBibtex: the Map it leaves, given the
\* Map it starts from; the clear precedes the parse, so a throw of the
\* parser leaves the Map empty
parseAndCacheBibtex(cache, content, fieldSortOrder) ==
    LET cleared == <<>>
        bibtex == bibtexParse(content)
    IN  IF bibtex.throws THEN cleared
        ELSE CacheEntries(cleared, bibtex.entries, fieldSortOrder)

\* Scenario A of the specification, with a field outside the sort order
ContentA == Text(<< <<DOE2020, "study">> >>)

\* a later version of the file: doe2020 twice, and a book with an editor
ContentB == Text(<< <<DOE2020, "bare">>, <<SMITH99, "edited">>, <<DOE2020, "authored">> >>)

NoContent == Text(<<>>)

\* the versions of the file in the lifecycle specification
Contents == {ContentA, ContentB, UnparsableText}

\* DEFAULT_SETTINGS.fieldSortOrder, shortened, and an edited order
OrderDefault == <<AUTHOR, YEAR, ENTRYTYPE, TITLE>>
OrderEdited == <<TITLE_UC, EDITOR_UC>>
Orders == {OrderDefault, OrderEdited}

\* the path of the .bib file of the vault and of another file
BibPath == "refs.bib"
NotePath == "note.md"

\* the sources of the code blocks
Sources == {<<" ">>, <<" ">> \o DOE2020 \o <<" ">>, XYZ999}

\* ------------------------------------------------- inputs of the pure part
FieldNamePool == {AUTHOR_UC, EDITOR, YEAR, TITLE}
OrderNamePool == {AUTHOR, EDITOR_UC, YEAR, ENTRYTYPE_UC}
LoadOrderNamePool == {AUTHOR, EDITOR_UC, YEAR, TITLE_UC}

SeqsUpTo(S, n) == UNION {[1..k -> S] : k \in 0..n}

\* the field sequences given to formatAndSortBibtexFields: names from the
\* pool, repetitions included, each field with the value of its position
FormatInputs ==
    {[entryType |-> ARTICLE, bibkey |-> DOE2020,
      fields |-> [i \in 1..Len(names) |-> Field(names[i], ValueAt(i))]] :
        names \in SeqsUpTo(FieldNamePool, MaxFields)}

SortOrders == SeqsUpTo(OrderNamePool, MaxOrder)

EmptyInput == [entryType |-> <<>>, bibkey |-> <<>>, fields |-> <<>>]

Shapes == {"authored", "edited", "bare"}
Keys == {DOE2020, SMITH99, <<>>}

\* the contents of the pure part: up to MaxEntries records, keys repeated or
\* empty, and a text the parser throws on
LoadContents ==
    {Text(records) : records \in SeqsUpTo(Keys \X Shapes, MaxEntries)}
    \cup {UnparsableText}

\* the sort orders of the loads of the pure part: at most two names
LoadOrders == SeqsUpTo(LoadOrderNamePool, 2)

\* ------------------------------------------------ inputs of the suggester
\* the key of the record at a position of a long file: k98, k97, ...
KeyAt(pos) == <<"k", DigitChars[((99 - pos) \div 10) + 1], DigitChars[((99 - pos) % 10) + 1]>>

\* long files: every record with an author, or every second one
LongText(n, everySecond) ==
    Text([i \in 1..n |-> <<KeyAt(i), IF everySecond /\ i % 2 = 1 THEN "edited"
                                     ELSE "authored">>])

SearchContents ==
    {ContentA, ContentB, NoContent}
    \cup {LongText(n, e) : n \in {MaxCached - 2, MaxCached}, e \in BOOLEAN}

SearchQueries ==
    {<<>>, <<"d">>, <<"D">>, <<"2">>, <<"-">>, <<" ">>, <<"-", "-">>, <<"-", " ">>,
     <<"d","o">>, <<"d","o","e">>, <<"D","o","e">>, <<"d","o","e"," ">>,
     <<"d","o","e"," ","2">>, <<"d","o","e"," ","2","0">>,
     <<"d","o","e","2","0">>, <<"s","m","i","t","h">>, <<"s","m">>,
     <<"a","c","m","e">>, <<"k","9">>, <<"v","1">>, <<"b","o","o","k">>,
     <<"z","z">>, <<"j","a","n","e"," ","d","o","e">>, <<"s","t","u","d","y",".">>,
     <<"2","0">>, <<"k","n","u","t","h","8","4">>, <<"K","n","u","t","h","\t","8","4">>,
     <<"m","ü","l","l","e","r">>, <<"ö","ö">>}

\* the queries on the long files
LongQueries ==
    {<<"d">>, <<"d","o">>, <<"d","o","e">>, <<"a","c","m","e">>, <<"k","9">>,
     <<"v","1">>, <<"z","z">>}

QueriesFor(content) ==
    IF Len(content.records) >= MaxCached - 2 THEN LongQueries ELSE SearchQueries

\* the characters typed after a query
TypedChars == {"e", "2", " ", "-", "D", "z"}

\* ------------------------------------------- the revision that parses by regex
\* the classes \w and \s, and the class [\w\d\-_\.] of keyMatch
WordChars == LowerSet \cup {UpperLetters[i] : i \in 1..Len(UpperLetters)}
                 \cup DigitSet \cup {"_"}
WhiteSpace == {" ", "\t", "\n"}
KeyChars == WordChars \cup {"-", "."}

Least(S) == CHOOSE x \in S : \A y \in S : x <= y

\* where a greedy run of the class that starts at i ends: the first position
\* from i on whose character is outside the class, Len(s) + 1 when none is
RunEnd(s, i, class) ==
    IF \E j \in i..Len(s) : s[j] \notin class
    THEN Least({j \in i..Len(s) : s[j] \notin class})
    ELSE Len(s) + 1

\* the first position from i on that holds the character, 0 when none does
FirstIndexOf(s, i, c) ==
    IF \E j \in i..Len(s) : s[j] = c
    THEN Least({j \in i..Len(s) : s[j] = c})
    ELSE 0

\* the braces opened and not closed in s[a..j]
Balance(s, a, j) ==
    Cardinality({i \in a..j : s[i] = "{"}) - Cardinality({i \in a..j : s[i] = "}"})

\* (?:[^{}]|\{...\})* followed by \}, read from a: the position of the first
\* closing brace outside every group, when the groups before it nest at most
\* maxDepth deep; 0 when there is no such brace or a group nests deeper
GroupedEnd(s, a, maxDepth) ==
    LET closes == {j \in a..Len(s) : s[j] = "}" /\ Balance(s, a, j - 1) = 0}
    IN  IF closes = {} THEN 0
        ELSE IF \A j \in a..(Least(closes) - 1) : Balance(s, a, j) <= maxDepth
        THEN Least(closes)
        ELSE 0

\* the groups entryRegex admits in an entry: \{(?:[^{}]|\{[^{}]*\})*\}
ENTRY_GROUP_DEPTH == 2

\* entryRegex tried at position i: the position of the closing brace of the
\* match, 0 when there is no match at i
\*   @\w+\s*\{[^,]+,(?:[^{}]|\{(?:[^{}]|\{[^{}]*\})*\})*?\s*\}
EntryMatchEnd(s, i) ==
    IF i > Len(s) \/ s[i] # "@" THEN 0
    ELSE LET word == RunEnd(s, i + 1, WordChars)
             open == RunEnd(s, word, WhiteSpace)
             comma == FirstIndexOf(s, open + 1, ",")
         IN  IF word = i + 1 \/ open > Len(s) THEN 0
             ELSE IF s[open] # "{" THEN 0
             ELSE IF comma = 0 \/ comma = open + 1 THEN 0
             ELSE GroupedEnd(s, comma + 1, ENTRY_GROUP_DEPTH)

\* content.match(entryRegex) with the g flag: the matches from left to right,
\* each search resumed after the match before
RECURSIVE MatchEntries(_, _)
MatchEntries(s, from) ==
    LET starts == {i \in from..Len(s) : EntryMatchEnd(s, i) # 0}
    IN  IF starts = {} THEN <<>>
        ELSE <<SubSeq(s, Least(starts), EntryMatchEnd(s, Least(starts)))>>
                 \o MatchEntries(s, EntryMatchEnd(s, Least(starts)) + 1)

\* a key match that takes every character up to the first comma as the key
KeyMatch_UpToComma(fullEntry) ==
    LET word == RunEnd(fullEntry, 2, WordChars)
        open == RunEnd(fullEntry, word, WhiteSpace)
        comma == FirstIndexOf(fullEntry, open + 1, ",")
    IN  IF comma = 0 THEN <<>> ELSE SubSeq(fullEntry, open + 1, comma - 1)

\* keyMatch[1] of /^@\w+\s*\{([\w\d\-_\.]+?)\s*[,}]/, <<>> when no match
KeyMatch(fullEntry) ==
    LET word == RunEnd(fullEntry, 2, WordChars)
        open == RunEnd(fullEntry, word, WhiteSpace)
        keyEnd == RunEnd(fullEntry, open + 1, KeyChars)
        after == RunEnd(fullEntry, keyEnd, WhiteSpace)
    IN  IF keyEnd = open + 1 \/ after > Len(fullEntry) THEN <<>>
        ELSE IF fullEntry[after] \in {",", "}"}
        THEN SubSeq(fullEntry, open + 1, keyEnd - 1)
        ELSE <<>>

\* the loop of parseBibtexEntry over the matches: an entry with a key match is
\* set in the Map under its key
RECURSIVE SetEntries(_, _)
SetEntries(cache, entries) ==
    IF entries = <<>> THEN cache
    ELSE IF KeyMatch(Head(entries)) # <<>>
    THEN SetEntries(MapSet(cache, Trim(KeyMatch(Head(entries))), Trim(Head(entries))),
                    Tail(entries))
    ELSE SetEntries(cache, Tail(entries))

\* BibtexEntryViewPlugin.parseBibtexEntry
parseBibtexEntry(cache, content) == SetEntries(cache, MatchEntries(content, 1))

\* headerMatch of /^@(\w+)\s*\{\s*([^,]+),/: the type, the key and the
\* length of the match; the key takes the last white space when the comma
\* follows the white space at once
HeaderMatch(entry) ==
    LET word == RunEnd(entry, 2, WordChars)
        open == RunEnd(entry, word, WhiteSpace)
        keyStart == RunEnd(entry, open + 1, WhiteSpace)
        comma == FirstIndexOf(entry, open + 1, ",")
    IN  IF entry = <<>> \/ word = 2 \/ open > Len(entry) \/ comma = 0 \/ comma = open + 1
        THEN [matched |-> FALSE, entryType |-> <<>>, bibkey |-> <<>>, length |-> 0]
        ELSE IF entry[1] # "@" \/ entry[open] # "{"
        THEN [matched |-> FALSE, entryType |-> <<>>, bibkey |-> <<>>, length |-> 0]
        ELSE [matched |-> TRUE, entryType |-> SubSeq(entry, 2, word - 1),
              bibkey |-> IF keyStart < comma THEN SubSeq(entry, keyStart, comma - 1)
                         ELSE SubSeq(entry, comma - 1, comma - 1),
              length |-> comma]

\* String.prototype.lastIndexOf (1-based, 0 when absent)
LastIndexOf(s, c) ==
    IF \E j \in 1..Len(s) : s[j] = c
    THEN CHOOSE j \in 1..Len(s) : s[j] = c /\ \A k \in (j + 1)..Len(s) : s[k] # c
    ELSE 0

\* "(?:[^"\\]|\\.)*" read from j, after the opening quote: the position of
\* the closing quote, 0 when the string does not close
RECURSIVE QuotedEnd(_, _)
QuotedEnd(s, j) ==
    IF j > Len(s) THEN 0
    ELSE IF s[j] = "\"" THEN j
    ELSE IF s[j] = "\\"
    THEN IF j + 1 <= Len(s) /\ s[j + 1] # "\n" THEN QuotedEnd(s, j + 2) ELSE 0
    ELSE QuotedEnd(s, j + 1)

\* the groups fieldRegex admits inside the braces of a value
VALUE_GROUP_DEPTH == 2

NoFieldMatch == [matched |-> FALSE, fieldName |-> <<>>, from |-> 0, to |-> 0]

\* fieldRegex tried at position i of the body: the name, and where the value
\* starts and ends
\*   \s*(\w+)\s*=\s*({(?:[^{}]|{(?:[^{}]|{[^{}]*})*})*}|"(?:[^"\\]|\\.)*")
FieldMatchAt(body, i) ==
    LET name == RunEnd(body, i, WhiteSpace)
        nameEnd == RunEnd(body, name, WordChars)
        equals == RunEnd(body, nameEnd, WhiteSpace)
        value == RunEnd(body, equals + 1, WhiteSpace)
        to == IF value > Len(body) THEN 0
              ELSE IF body[value] = "{" THEN GroupedEnd(body, value + 1, VALUE_GROUP_DEPTH)
              ELSE IF body[value] = "\"" THEN QuotedEnd(body, value + 1)
              ELSE 0
    IN  IF nameEnd = name \/ equals > Len(body) THEN NoFieldMatch
        ELSE IF body[equals] # "=" \/ to = 0 THEN NoFieldMatch
        ELSE [matched |-> TRUE, fieldName |-> SubSeq(body, name, nameEnd - 1),
              from |-> value, to |-> to]

\* the while loop of fieldRegex.exec(body): the matches from left to right
RECURSIVE FieldMatches(_, _)
FieldMatches(body, from) ==
    LET starts == {i \in from..Len(body) : FieldMatchAt(body, i).matched}
    IN  IF starts = {} THEN <<>>
        ELSE <<FieldMatchAt(body, Least(starts))>>
                 \o FieldMatches(body, FieldMatchAt(body, Least(starts)).to + 1)

StartsWith(s, c) == s # <<>> /\ s[1] = c
EndsWith(s, c) == s # <<>> /\ s[Len(s)] = c

\* the value of a field as formatAndSortBibtexEntry keeps it: trimmed, and
\* without its braces or quotes when it is wrapped in them
StripDelimiters(raw) ==
    LET fieldValuePart == Trim(raw)
    IN  IF \/ StartsWith(fieldValuePart, "{") /\ EndsWith(fieldValuePart, "}")
           \/ StartsWith(fieldValuePart, "\"") /\ EndsWith(fieldValuePart, "\"")
        THEN SubSeq(fieldValuePart, 2, Len(fieldValuePart) - 1)
        ELSE fieldValuePart

\* allParsedFields of formatAndSortBibtexEntry before the entry type is pushed
ParsedFields(body) ==
    LET matches == FieldMatches(body, 1)
    IN  [i \in 1..Len(matches) |->
            Field(matches[i].fieldName,
                  StripDelimiters(SubSeq(body, matches[i].from, matches[i].to)))]

\* entry.substring(headerMatch[0].length, entry.lastIndexOf('}'))
EntryBody(entry) ==
    LET start == HeaderMatch(entry).length
        end == LastIndexOf(entry, "}") - 1
    IN  IF end < 0 THEN SubSeq(entry, 1, start)
        ELSE IF end < start THEN SubSeq(entry, end + 1, start)
        ELSE SubSeq(entry, start + 1, end)

\* the function without the test of headerMatch
formatAndSortBibtexEntry_NoHeaderTest(entry, fieldSortOrder) ==
    [found |-> TRUE,
     result |-> formatAndSortBibtexFields(
                    [entryType |-> HeaderMatch(entry).entryType,
                     bibkey |-> HeaderMatch(entry).bibkey,
                     fields |-> ParsedFields(EntryBody(entry))],
                    fieldSortOrder)]

\* BibtexEntryViewPlugin.formatAndSortBibtexEntry: found is FALSE for null
formatAndSortBibtexEntry(entry, fieldSortOrder) ==
    IF ~HeaderMatch(entry).matched
    THEN [found |-> FALSE, result |-> EmptyInput]
    ELSE [found |-> TRUE,
          result |-> formatAndSortBibtexFields(
                         [entryType |-> HeaderMatch(entry).entryType,
                          bibkey |-> HeaderMatch(entry).bibkey,
                          fields |-> ParsedFields(EntryBody(entry))],
                         fieldSortOrder)]

\* ------------------------------------------ inputs of the regex revision
\* a field of an entry of a .bib text: its name, what stands between the
\* name and the value, and the value between its delimiters
BracedField(name, equals, inner) ==
    [name |-> name, equals |-> equals, open |-> "{", inner |-> inner, close |-> "}"]
QuotedField(name, equals, inner) ==
    [name |-> name, equals |-> equals, open |-> "\"", inner |-> inner, close |-> "\""]

\* an entry of a .bib text; closed is FALSE when its closing brace is
\* missing, and the text stops after the key when it has no fields
TextEntry(type, key, fields, closed) ==
    [type |-> type, key |-> key, afterKey |-> <<>>, fields |-> fields,
     closed |-> closed]

\* a closed entry with characters between its key and its fields or its
\* closing brace
KeyThenEntry(type, key, afterKey, fields) ==
    [type |-> type, key |-> key, afterKey |-> afterKey, fields |-> fields,
     closed |-> TRUE]

RECURSIVE FieldsText(_)
FieldsText(fields) ==
    IF fields = <<>> THEN <<>>
    ELSE <<",">> \o Head(fields).name \o Head(fields).equals \o <<Head(fields).open>>
           \o Head(fields).inner \o <<Head(fields).close>> \o FieldsText(Tail(fields))

\* the characters of an entry
EntryText(entry) ==
    <<"@">> \o entry.type \o <<"{">> \o entry.key \o entry.afterKey
        \o FieldsText(entry.fields)
        \o (IF entry.closed THEN <<"}">> ELSE <<>>)

\* the characters of a .bib text: its entries, one to a line
RECURSIVE ContentText(_)
ContentText(texts) ==
    IF texts = <<>> THEN <<>>
    ELSE EntryText(Head(texts)) \o <<"\n">> \o ContentText(Tail(texts))

EQ == <<"=">>
EQ_SPACED == <<" ", "=", " ">>
MISC == <<"m","i","s","c">>

\* a plain value, the nested value of the specification, a value nested one
\* level deeper, a quoted value and a value in two pairs of braces
PlainEntry ==
    TextEntry(MISC, <<"k","1">>, <<BracedField(TITLE, EQ, <<"x">>)>>, TRUE)
NestedEntry ==
    TextEntry(MISC, <<"k","2">>,
              <<BracedField(TITLE, EQ, <<"S"," ","{","N","}"," ","T">>),
                BracedField(YEAR, EQ, <<"1">>)>>, TRUE)
DeepEntry ==
    TextEntry(MISC, <<"k","3">>,
              <<BracedField(TITLE, EQ, <<"A","{","B","{","C","}","}">>)>>, TRUE)
QuotedEntry ==
    TextEntry(MISC, <<"k","4">>, <<QuotedField(TITLE, EQ_SPACED, <<"q">>)>>, TRUE)
DoubleEntry ==
    TextEntry(MISC, <<"k","5">>, <<BracedField(TITLE, EQ, <<"{","a","}">>)>>, TRUE)

\* an entry without its closing brace, and one that stops after its key
OpenEntry ==
    TextEntry(MISC, <<"k","6">>, <<BracedField(TITLE, EQ, <<"y">>)>>, FALSE)
CutEntry == TextEntry(MISC, <<"k","7">>, <<>>, FALSE)

\* a key with a colon, a key followed by a space, and entries without
\* fields: the key followed by the closing brace, or by a comma and the
\* closing brace
ColonKeyEntry ==
    TextEntry(MISC, <<"a",":","b">>, <<BracedField(TITLE, EQ, <<"z">>)>>, TRUE)
SpacedKeyEntry ==
    KeyThenEntry(MISC, <<"k","0">>, <<" ">>, <<BracedField(TITLE, EQ, <<"w">>)>>)
BareEntry == TextEntry(MISC, <<"k","8">>, <<>>, TRUE)
CommaEntry == KeyThenEntry(MISC, <<"k","9">>, <<",">>, <<>>)

WellFormedEntries ==
    {PlainEntry, NestedEntry, DeepEntry, QuotedEntry, DoubleEntry, ColonKeyEntry,
     SpacedKeyEntry, BareEntry, CommaEntry}
MalformedEntries == {OpenEntry, CutEntry}
TextEntries == WellFormedEntries \cup MalformedEntries

\* the .bib texts of the regex revision: up to MaxTexts entries
RegexTexts == SeqsUpTo(TextEntries, MaxTexts)

\* the keys looked up
RegexSources == {entry.key : entry \in TextEntries}

\* entries with a header, and texts without one: no comma after the key
HeaderEntries == {PlainEntry, QuotedEntry, ColonKeyEntry, BareEntry, CutEntry}
HeaderTexts == SeqsUpTo(HeaderEntries, MaxTexts)
HeaderSources == {entry.key : entry \in HeaderEntries}
HeaderQueries == {<<"m","i">>, <<"k","1">>}

\* ------------------------------------------------------------------- state
VARIABLES
    settings,      \* this.settings: bibFilePath, fieldSortOrder
    vaultFile,     \* the .bib file of the vault: exists, content
    bibCache,      \* this.bibCache
    loads,         \* the calls of loadBibFile, in the order they were made
    layoutFired,   \* onLayoutReady has run its callback
    registered,    \* the code block processor is registered
    snapshotKeys,  \* the keys of the cache when the last load returned
    lastLookup,    \* what the last run of the code block processor showed
    fmtIn,         \* the argument of a direct call of formatAndSortBibtexFields
    fmtOut,        \* its result
    firstRun,      \* the first load that completed: what it read and left
    query,         \* context.query of a call of getSuggestions
    suggestions,   \* its result
    rawContent,    \* the text given to parseBibtexEntry
    bibEntries,    \* this.bibEntries of the revision that parses by regex
    entriesLoaded, \* loadBibFile of that revision has returned
    parsedEntry,   \* what that revision's code block processor got for a key
    modified,      \* the last 'modify' event the handler was seen to handle
    unloaded       \* onunload has run

searchVars == <<query, suggestions>>
regexVars == <<rawContent, bibEntries, entriesLoaded, parsedEntry>>
hostVars == <<modified, unloaded>>

vars == <<settings, vaultFile, bibCache, loads, layoutFired, registered,
          snapshotKeys, lastLookup, fmtIn, fmtOut, firstRun, searchVars,
          regexVars, hostVars>>

NoLookup == [source |-> <<>>, outcome |-> "none", bibkey |-> <<>>, fields |-> <<>>]
NotCalled == [called |-> FALSE, result |-> EmptyInput]
NoFirstRun == [done |-> FALSE, content |-> NoContent, fieldSortOrder |-> <<>>,
               cache |-> <<>>]
NotSuggested == [called |-> FALSE, result |-> <<>>]
NotParsed == [called |-> FALSE, direct |-> FALSE, source |-> <<>>, found |-> FALSE,
              result |-> EmptyInput]
NoModify == [seen |-> FALSE, path |-> "", bibFilePath |-> "", cached |-> 0]

\* the variables of the other parts, in the state after construction
SearchIdle == query = <<>> /\ suggestions = NotSuggested
RegexIdle ==
    /\ rawContent = <<>>
    /\ bibEntries = <<>>
    /\ entriesLoaded = FALSE
    /\ parsedEntry = NotParsed
HostIdle == modified = NoModify /\ unloaded = FALSE

\* a load that waits for vault.read or for its continuation
InFlight(l) == loads[l].pc \in {"reading", "read", "readError"}

\* the ways a load fails: path not resolved, read thrown, parse thrown
FailedPcs == {"notFound", "readFailed", "parseFailed"}

\* getAbstractFileByPath(path) instanceof TFile
Resolves(path) == path = BibPath /\ vaultFile.exists

Init ==
    /\ settings \in [bibFilePath : {"", BibPath}, fieldSortOrder : {OrderDefault}]
    /\ vaultFile = [exists |-> TRUE, content |-> ContentA]
    /\ bibCache = <<>>
    /\ loads = <<>>
    /\ layoutFired = FALSE
    /\ registered = FALSE
    /\ snapshotKeys = {}
    /\ lastLookup = NoLookup
    /\ fmtIn = EmptyInput
    /\ fmtOut = NotCalled
    /\ firstRun = NoFirstRun
    /\ SearchIdle
    /\ RegexIdle
    /\ HostIdle

\* ----------------------------------------------------------------- actions
\* where loadBibFile stands when it returns or suspends: no path, path not
\* resolved, or waiting for vault.read
LoadEntryPc(path, resolves) ==
    IF path = "" THEN "noPath"
    ELSE IF ~resolves THEN "notFound"
    ELSE "reading"

\* the cache after the synchronous part of loadBibFile
ClearedCache(cache) == <<>>

\* loadBibFile up to its return or its await: the cache is cleared first;
\* overlap tells that an earlier load was still in flight
loadBibFile(layout, path, resolves) ==
    /\ Len(loads) < MaxLoads
    /\ bibCache' = ClearedCache(bibCache)
    /\ loads' = Append(loads, [layout |-> layout,
                               pc |-> LoadEntryPc(path, resolves),
                               overlap |-> \E l \in 1..Len(loads) : InFlight(l),
                               content |-> NoContent])
    /\ snapshotKeys' = IF LoadEntryPc(path, resolves) = "reading" THEN snapshotKeys
                       ELSE {}

\* the onLayoutReady callback: the first load, then the registration of the
\* code block processor once that load has returned
LayoutReady ==
    /\ ~layoutFired
    /\ layoutFired' = TRUE
    /\ loadBibFile(TRUE, settings.bibFilePath, Resolves(settings.bibFilePath))
    /\ registered' = (LoadEntryPc(settings.bibFilePath,
                                  Resolves(settings.bibFilePath)) # "reading")
    /\ UNCHANGED <<firstRun, searchVars, regexVars, hostVars,
                   settings, vaultFile, lastLookup, fmtIn, fmtOut>>

\* the handler loads whatever file was modified
ModifyHandler_AnyPath(path) ==
    /\ path = NotePath \/ vaultFile.exists
    /\ loadBibFile(FALSE, settings.bibFilePath, Resolves(settings.bibFilePath))
    /\ UNCHANGED <<firstRun, searchVars, regexVars, unloaded,
                   settings, vaultFile, layoutFired, registered, lastLookup,
                   fmtIn, fmtOut>>

\* the vault 'modify' handler: a load when the path is the configured one
ModifyHandler(path) ==
    /\ path = NotePath \/ vaultFile.exists
    /\ IF path = settings.bibFilePath
       THEN loadBibFile(FALSE, settings.bibFilePath, Resolves(settings.bibFilePath))
       ELSE UNCHANGED <<bibCache, loads, snapshotKeys>>
    /\ UNCHANGED <<firstRun, searchVars, regexVars, unloaded,
                   settings, vaultFile, layoutFired, registered, lastLookup,
                   fmtIn, fmtOut>>

\* a 'modify' event of the vault
OnModify(path) == ModifyHandler(path) /\ UNCHANGED modified

\* a 'modify' event of the vault, seen: the path of the file, and the
\* configured path and the size of the cache when the handler was called
ModifyEvent(path) ==
    /\ ModifyHandler(path)
    /\ modified' = [seen |-> TRUE, path |-> path,
                    bibFilePath |-> settings.bibFilePath, cached |-> Len(bibCache)]

\* the host reads the file for a waiting load: its content now, or an error
\* when the file is gone
ReadSnapshot(l) ==
    /\ loads[l].pc = "reading"
    /\ loads' = [loads EXCEPT ![l].pc = IF vaultFile.exists THEN "read" ELSE "readError",
                              ![l].content = IF vaultFile.exists THEN vaultFile.content
                                             ELSE NoContent]
    /\ UNCHANGED <<firstRun, searchVars, regexVars, hostVars,
                   settings, vaultFile, bibCache, layoutFired, registered,
                   snapshotKeys, lastLookup, fmtIn, fmtOut>>

\* the continuation of loadBibFile after the read: parseAndCacheBibtex
ReadContinue(l) ==
    /\ loads[l].pc = "read"
    /\ bibCache' = parseAndCacheBibtex(bibCache, loads[l].content,
                                       settings.fieldSortOrder)
    /\ loads' = [loads EXCEPT ![l].pc = IF bibtexParse(loads[l].content).throws
                                        THEN "parseFailed" ELSE "done"]
    /\ snapshotKeys' = MapKeys(bibCache')
    /\ registered' = (registered \/ loads[l].layout)
    /\ firstRun' = IF firstRun.done \/ bibtexParse(loads[l].content).throws
                   THEN firstRun
                   ELSE [done |-> TRUE, content |-> loads[l].content,
                         fieldSortOrder |-> settings.fieldSortOrder,
                         cache |-> bibCache']
    /\ UNCHANGED <<searchVars, regexVars, hostVars, settings, vaultFile, layoutFired,
                   lastLookup, fmtIn, fmtOut>>

\* the catch block of loadBibFile when vault.read throws
ReadFail(l) ==
    /\ loads[l].pc = "readError"
    /\ loads' = [loads EXCEPT ![l].pc = "readFailed"]
    /\ snapshotKeys' = MapKeys(bibCache)
    /\ registered' = (registered \/ loads[l].layout)
    /\ UNCHANGED <<firstRun, searchVars, regexVars, hostVars,
                   settings, vaultFile, bibCache, layoutFired, lastLookup,
                   fmtIn, fmtOut>>

\* onunload: the cache is cleared
Unload ==
    /\ ~unloaded
    /\ bibCache' = ClearedCache(bibCache)
    /\ unloaded' = TRUE
    /\ UNCHANGED <<firstRun, searchVars, regexVars, modified,
                   settings, vaultFile, loads, layoutFired, registered,
                   snapshotKeys, lastLookup, fmtIn, fmtOut>>

\* the file is written outside the plugin
ChangeContent(content) ==
    /\ vaultFile.exists
    /\ content # vaultFile.content
    /\ vaultFile' = [vaultFile EXCEPT !.content = content]
    /\ UNCHANGED <<firstRun, searchVars, regexVars, hostVars,
                   settings, bibCache, loads, layoutFired, registered,
                   snapshotKeys, lastLookup, fmtIn, fmtOut>>

\* the file is deleted or moved away
DeleteFile ==
    /\ vaultFile.exists
    /\ vaultFile' = [vaultFile EXCEPT !.exists = FALSE]
    /\ UNCHANGED <<firstRun, searchVars, regexVars, hostVars,
                   settings, bibCache, loads, layoutFired, registered,
                   snapshotKeys, lastLookup, fmtIn, fmtOut>>

\* the text area of the settings tab: the order changes, nothing is loaded
\* (the tab is open, so a call of hide() is still to come)
SetSortOrder(order) ==
    /\ Len(loads) < MaxLoads
    /\ order # settings.fieldSortOrder
    /\ settings' = [settings EXCEPT !.fieldSortOrder = order]
    /\ UNCHANGED <<firstRun, searchVars, regexVars, hostVars,
                   vaultFile, bibCache, loads, layoutFired, registered,
                   snapshotKeys, lastLookup, fmtIn, fmtOut>>

\* hide() that saves the settings and loads nothing
HideSettings_NoReload == UNCHANGED vars

\* hide() of the settings tab: saveSettings, which loads
HideSettings ==
    /\ loadBibFile(FALSE, settings.bibFilePath, Resolves(settings.bibFilePath))
    /\ UNCHANGED <<firstRun, searchVars, regexVars, hostVars,
                   settings, vaultFile, layoutFired, registered, lastLookup,
                   fmtIn, fmtOut>>

\* "Select from vault": the chosen path is set and saveSettings loads
SelectFromVault ==
    /\ vaultFile.exists
    /\ settings' = [settings EXCEPT !.bibFilePath = BibPath]
    /\ loadBibFile(FALSE, BibPath, TRUE)
    /\ UNCHANGED <<firstRun, searchVars, regexVars, hostVars,
                   vaultFile, layoutFired, registered, lastLookup, fmtIn, fmtOut>>

\* "Import to vault": the file is written, its path set, saveSettings loads
ImportToVault(content) ==
    /\ vaultFile' = [exists |-> TRUE, content |-> content]
    /\ settings' = [settings EXCEPT !.bibFilePath = BibPath]
    /\ loadBibFile(FALSE, BibPath, TRUE)
    /\ UNCHANGED <<firstRun, searchVars, regexVars, hostVars,
                   layoutFired, registered, lastLookup, fmtIn, fmtOut>>

\* the code block processor without its test of the empty key
LookupResult_NoBlankTest(cache, source) ==
    IF MapHas(cache, Trim(source))
    THEN [source |-> source, outcome |-> "found",
          bibkey |-> MapGet(cache, Trim(source)).formattedEntry.bibkey,
          fields |-> MapGet(cache, Trim(source)).formattedEntry.fields]
    ELSE [source |-> source, outcome |-> "invalidKey", bibkey |-> Trim(source),
          fields |-> <<>>]

\* what the code block processor shows for a source
LookupResult(cache, source) ==
    LET bibkey == Trim(source)
    IN  IF bibkey = <<>>
        THEN [source |-> source, outcome |-> "emptyKey", bibkey |-> <<>>,
              fields |-> <<>>]
        ELSE IF MapHas(cache, bibkey)
        THEN [source |-> source, outcome |-> "found",
              bibkey |-> MapGet(cache, bibkey).formattedEntry.bibkey,
              fields |-> MapGet(cache, bibkey).formattedEntry.fields]
        ELSE [source |-> source, outcome |-> "invalidKey", bibkey |-> bibkey,
              fields |-> <<>>]

\* PLUGIN_CONSTANTS.EMPTY_KEY_MSG and the classes of the elements
EMPTY_KEY_MSG == <<"(","p","r","o","v","i","d","e"," ","a"," ","c","o","r","r","e","c","t",
                   " ","k","e","y",")">>
CSS_BIBTEX_ENTRY == "bibtex-entry-view"
CSS_BIBTEX_ERROR == "bibtex-entry-view bibtex-error"
CSS_BIBKEY == "bibkey"
CSS_INVALID_KEY == "bibkey-invalid-key"
CSS_FIELD_NAME == "bibtex-field-name"
CSS_FIELD_VALUE == "bibtex-field-value"

\* createEl('span', {text, cls}) and appendText(text)
Span(text, cls) == [text |-> text, cls |-> cls]
TextNode(text) == [text |-> text, cls |-> ""]

\* the children of the code element for the fields of an entry
RECURSIVE FieldNodes(_)
FieldNodes(fields) ==
    IF fields = <<>> THEN <<>>
    ELSE <<TextNode(<<"\n">>),
           Span(Head(fields).fieldName, CSS_FIELD_NAME),
           Span(<<":", " ">>, CSS_FIELD_NAME),
           Span(Head(fields).fieldValue, CSS_FIELD_VALUE)>> \o FieldNodes(Tail(fields))

\* the code element the processor builds: its class and its children
Render(lookup) ==
    CASE lookup.outcome = "emptyKey" ->
            [cls |-> CSS_BIBTEX_ERROR,
             children |-> <<Span(EMPTY_KEY_MSG, CSS_INVALID_KEY)>>]
      [] lookup.outcome = "invalidKey" ->
            [cls |-> CSS_BIBTEX_ERROR,
             children |-> <<Span(lookup.bibkey, CSS_INVALID_KEY), TextNode(<<" ">>),
                            Span(EMPTY_KEY_MSG, CSS_INVALID_KEY)>>]
      [] lookup.outcome = "found" ->
            [cls |-> CSS_BIBTEX_ENTRY,
             children |-> <<Span(lookup.bibkey, CSS_BIBKEY)>> \o FieldNodes(lookup.fields)]
      [] OTHER -> [cls |-> "", children |-> <<>>]

\* the code block processor runs on a block
Lookup(source) ==
    /\ registered
    /\ lastLookup' = LookupResult(bibCache, source)
    /\ UNCHANGED <<firstRun, searchVars, regexVars, hostVars,
                   settings, vaultFile, bibCache, loads, layoutFired, registered,
                   snapshotKeys, fmtIn, fmtOut>>

\* a direct call of formatAndSortBibtexFields
FormatCall ==
    /\ ~fmtOut.called
    /\ fmtOut' = [called |-> TRUE,
                  result |-> formatAndSortBibtexFields(fmtIn, settings.fieldSortOrder)]
    /\ fmtIn' = [fmtIn EXCEPT !.fields = FieldsAfterCall(fmtIn)]
    /\ UNCHANGED <<firstRun, searchVars, regexVars, hostVars,
                   settings, vaultFile, bibCache, loads, layoutFired, registered,
                   snapshotKeys, lastLookup>>

\* a call of getSuggestions by the editor
GetSuggestions ==
    /\ ~suggestions.called
    /\ suggestions' = [called |-> TRUE, result |-> getSuggestions(bibCache, query)]
    /\ UNCHANGED <<settings, vaultFile, bibCache, loads, layoutFired, registered,
                   snapshotKeys, lastLookup, fmtIn, fmtOut, firstRun, query,
                   regexVars, hostVars>>

Next ==
    \/ LayoutReady
    \/ \E path \in {BibPath, NotePath} : OnModify(path)
    \/ \E l \in 1..Len(loads) : ReadSnapshot(l)
    \/ \E l \in 1..Len(loads) : ReadContinue(l)
    \/ \E l \in 1..Len(loads) : ReadFail(l)
    \/ \E content \in Contents : ChangeContent(content)
    \/ DeleteFile
    \/ \E order \in Orders : SetSortOrder(order)
    \/ HideSettings
    \/ SelectFromVault
    \/ \E content \in Contents : ImportToVault(content)
    \/ \E source \in Sources : Lookup(source)

Spec == Init /\ [][Next]_vars

\* the life of the cache without the code blocks: the loads, the file and
\* the settings tab
NextCache ==
    \/ LayoutReady
    \/ \E path \in {BibPath, NotePath} : OnModify(path)
    \/ \E l \in 1..Len(loads) : ReadSnapshot(l)
    \/ \E l \in 1..Len(loads) : ReadContinue(l)
    \/ \E l \in 1..Len(loads) : ReadFail(l)
    \/ \E content \in Contents : ChangeContent(content)
    \/ DeleteFile
    \/ \E order \in Orders : SetSortOrder(order)
    \/ HideSettings
    \/ SelectFromVault
    \/ \E content \in Contents : ImportToVault(content)

\* the settings tab is closed in the end, and the host resolves the read of
\* a waiting load and runs its continuation. The weak fairness of the
\* continuation is written out: a continuation is enabled exactly when a load
\* stands at "read"
Fairness ==
    /\ WF_vars(HideSettings)
    /\ WF_vars(\E l \in 1..Len(loads) : ReadSnapshot(l))
    /\ WF_vars(\E l \in 1..Len(loads) : ReadFail(l))
    /\ \/ []<>(\A l \in 1..Len(loads) : loads[l].pc # "read")
       \/ []<><<\E l \in 1..Len(loads) : ReadContinue(l)>>_vars

SpecFair == Init /\ [][NextCache]_vars /\ Fairness

\* the 'modify' events of the vault, seen, among the loads and the changes
\* of the file
NextModify ==
    \/ LayoutReady
    \/ \E path \in {BibPath, NotePath} : ModifyEvent(path)
    \/ \E l \in 1..Len(loads) : ReadSnapshot(l)
    \/ \E l \in 1..Len(loads) : ReadContinue(l)
    \/ \E l \in 1..Len(loads) : ReadFail(l)
    \/ \E content \in Contents : ChangeContent(content)
    \/ DeleteFile

SpecModify == Init /\ [][NextModify]_vars

\* the plugin is unloaded at some time: the callbacks and the handlers of
\* the host run until then, the read of a waiting load and its continuation
\* also afterwards
NextUnload ==
    \/ ~unloaded /\ LayoutReady
    \/ ~unloaded /\ \E path \in {BibPath, NotePath} : OnModify(path)
    \/ \E l \in 1..Len(loads) : ReadSnapshot(l)
    \/ \E l \in 1..Len(loads) : ReadContinue(l)
    \/ \E l \in 1..Len(loads) : ReadFail(l)
    \/ \E content \in Contents : ChangeContent(content)
    \/ DeleteFile
    \/ Unload

SpecUnload == Init /\ [][NextUnload]_vars

\* ----------------------------------------------------------- the pure part
\* formatAndSortBibtexFields on every input and order of the bounds
InitFormat ==
    /\ settings \in [bibFilePath : {""}, fieldSortOrder : SortOrders]
    /\ vaultFile = [exists |-> FALSE, content |-> NoContent]
    /\ fmtIn \in FormatInputs

\* one load of every content of the bounds
InitLoad ==
    /\ settings \in [bibFilePath : {BibPath}, fieldSortOrder : LoadOrders]
    /\ vaultFile \in [exists : {TRUE}, content : LoadContents]
    /\ fmtIn = EmptyInput

InitPure ==
    /\ InitFormat \/ InitLoad
    /\ bibCache = <<>>
    /\ loads = <<>>
    /\ layoutFired = FALSE
    /\ registered = FALSE
    /\ snapshotKeys = {}
    /\ lastLookup = NoLookup
    /\ fmtOut = NotCalled
    /\ firstRun = NoFirstRun
    /\ SearchIdle
    /\ RegexIdle
    /\ HostIdle

NextPure ==
    \/ FormatCall
    \/ LayoutReady
    \/ \E l \in 1..Len(loads) : ReadSnapshot(l)
    \/ \E l \in 1..Len(loads) : ReadContinue(l)

SpecPure == InitPure /\ [][NextPure]_vars

\* ------------------------------------------------------- the suggester part
\* the state after the layout load of a file has completed, and a query
InitSearch ==
    /\ settings \in [bibFilePath : {BibPath}, fieldSortOrder : Orders]
    /\ vaultFile \in [exists : {TRUE}, content : SearchContents]
    /\ bibCache = parseAndCacheBibtex(<<>>, vaultFile.content, settings.fieldSortOrder)
    /\ loads = <<[layout |-> TRUE, pc |-> "done", overlap |-> FALSE,
                  content |-> vaultFile.content]>>
    /\ layoutFired = TRUE
    /\ registered = TRUE
    /\ snapshotKeys = MapKeys(bibCache)
    /\ lastLookup = NoLookup
    /\ fmtIn = EmptyInput
    /\ fmtOut = NotCalled
    /\ firstRun = [done |-> TRUE, content |-> vaultFile.content,
                   fieldSortOrder |-> settings.fieldSortOrder, cache |-> bibCache]
    /\ query \in QueriesFor(vaultFile.content)
    /\ suggestions = NotSuggested
    /\ RegexIdle
    /\ HostIdle

NextSearch == GetSuggestions

SpecSearch == InitSearch /\ [][NextSearch]_vars

\* ----------------------------------------------------- the regex revision
\* loadBibFile of the revision that parses by regex, on the text read: the
\* Map is cleared and parseBibtexEntry sets the entries it matches
LoadBibEntries ==
    /\ bibEntries' = parseBibtexEntry(<<>>, rawContent)
    /\ entriesLoaded' = TRUE
    /\ UNCHANGED <<settings, vaultFile, bibCache, loads, layoutFired, registered,
                   snapshotKeys, lastLookup, fmtIn, fmtOut, firstRun, searchVars,
                   hostVars, rawContent, parsedEntry>>

\* what the code block processor of that revision gets for a source: the
\* entry of the key, formatted, when the Map has one
ProcessorResult(entries, source, fieldSortOrder) ==
    LET bibkey == Trim(source)
        formatted == formatAndSortBibtexEntry(MapGet(entries, bibkey), fieldSortOrder)
    IN  IF bibkey # <<>> /\ MapHas(entries, bibkey)
        THEN [called |-> TRUE, direct |-> FALSE, source |-> source,
              found |-> formatted.found, result |-> formatted.result]
        ELSE [called |-> TRUE, direct |-> FALSE, source |-> source, found |-> FALSE,
              result |-> EmptyInput]

\* the code block processor of that revision runs on a block
ProcessBibkey(source) ==
    /\ entriesLoaded
    /\ parsedEntry' = ProcessorResult(bibEntries, source, settings.fieldSortOrder)
    /\ UNCHANGED <<settings, vaultFile, bibCache, loads, layoutFired, registered,
                   snapshotKeys, lastLookup, fmtIn, fmtOut, firstRun, searchVars,
                   hostVars, rawContent, bibEntries, entriesLoaded>>

\* a call of formatAndSortBibtexEntry on a text
FormatEntryCall(entry) ==
    /\ parsedEntry' = [called |-> TRUE, direct |-> TRUE, source |-> entry,
                       found |-> formatAndSortBibtexEntry(entry,
                                     settings.fieldSortOrder).found,
                       result |-> formatAndSortBibtexEntry(entry,
                                      settings.fieldSortOrder).result]
    /\ UNCHANGED <<settings, vaultFile, bibCache, loads, layoutFired, registered,
                   snapshotKeys, lastLookup, fmtIn, fmtOut, firstRun, searchVars,
                   hostVars, rawContent, bibEntries, entriesLoaded>>

\* the values of the Map that format to an entry, each with the text that
\* is searched: the start of the loop of getSuggestions of that revision,
\* which goes on to the next value when formatAndSortBibtexEntry gives null
RECURSIVE FormattedValues(_, _)
FormattedValues(entries, fieldSortOrder) ==
    IF entries = <<>> THEN <<>>
    ELSE LET entry == formatAndSortBibtexEntry(Head(entries)[2], fieldSortOrder)
         IN  (IF entry.found
              THEN <<<<Head(entries)[1],
                       [formattedEntry |-> entry.result,
                        searchableText |-> SearchableText(entry.result, fieldSortOrder)]>>>>
              ELSE <<>>) \o FormattedValues(Tail(entries), fieldSortOrder)

\* getSuggestions of that revision on this.plugin.bibEntries
getSuggestionsOfEntries(entries, contextQuery, fieldSortOrder) ==
    getSuggestions(FormattedValues(entries, fieldSortOrder), contextQuery)

\* a call of getSuggestions of that revision by the editor
SuggestEntries ==
    /\ entriesLoaded
    /\ ~suggestions.called
    /\ suggestions' = [called |-> TRUE,
                       result |-> getSuggestionsOfEntries(bibEntries, query,
                                                          settings.fieldSortOrder)]
    /\ UNCHANGED <<settings, vaultFile, bibCache, loads, layoutFired, registered,
                   snapshotKeys, lastLookup, fmtIn, fmtOut, firstRun, query,
                   regexVars, hostVars>>

\* a .bib text of the bounds, not read yet
InitRegex ==
    /\ settings = [bibFilePath |-> BibPath, fieldSortOrder |-> OrderDefault]
    /\ vaultFile = [exists |-> TRUE, content |-> NoContent]
    /\ bibCache = <<>>
    /\ loads = <<>>
    /\ layoutFired = FALSE
    /\ registered = FALSE
    /\ snapshotKeys = {}
    /\ lastLookup = NoLookup
    /\ fmtIn = EmptyInput
    /\ fmtOut = NotCalled
    /\ firstRun = NoFirstRun
    /\ SearchIdle
    /\ rawContent \in {ContentText(texts) : texts \in RegexTexts}
    /\ bibEntries = <<>>
    /\ entriesLoaded = FALSE
    /\ parsedEntry = NotParsed
    /\ HostIdle

NextRegex ==
    \/ LoadBibEntries
    \/ \E source \in RegexSources : ProcessBibkey(source)

SpecRegex == InitRegex /\ [][NextRegex]_vars

\* a .bib text of entries with and without a header, and a query
InitEntries ==
    /\ settings = [bibFilePath |-> BibPath, fieldSortOrder |-> OrderDefault]
    /\ vaultFile = [exists |-> TRUE, content |-> NoContent]
    /\ bibCache = <<>>
    /\ loads = <<>>
    /\ layoutFired = FALSE
    /\ registered = FALSE
    /\ snapshotKeys = {}
    /\ lastLookup = NoLookup
    /\ fmtIn = EmptyInput
    /\ fmtOut = NotCalled
    /\ firstRun = NoFirstRun
    /\ query \in HeaderQueries
    /\ suggestions = NotSuggested
    /\ rawContent \in {ContentText(texts) : texts \in HeaderTexts}
    /\ bibEntries = <<>>
    /\ entriesLoaded = FALSE
    /\ parsedEntry = NotParsed
    /\ HostIdle

\* the load, the code blocks, the suggester, and calls of the formatter on
\* texts that are and are not entries
NextEntries ==
    \/ LoadBibEntries
    \/ \E source \in HeaderSources : ProcessBibkey(source)
    \/ \E entry \in HeaderEntries : FormatEntryCall(EntryText(entry))
    \/ SuggestEntries

SpecEntries == InitEntries /\ [][NextEntries]_vars


\* ------------------------------------------------------------------ claims
\* the entries of the cache
CachedValues == {bibCache[i][2] : i \in 1..Len(bibCache)}

\* the records of a text that carry the key
RecordsWithKey(content, key) ==
    {i \in 1..Len(content.records) : content.records[i][1] = key}

\* the name is in the sort order, letter case ignored
InSortOrder(name, fieldSortOrder) ==
    \E j \in 1..Len(fieldSortOrder) :
        ToLowerCase(fieldSortOrder[j]) = ToLowerCase(name)

\* the input has a field of that lowercase name and the sort order lists it
Survives(input, lowerName, fieldSortOrder) ==
    /\ InSortOrder(lowerName, fieldSortOrder)
    /\ \E i \in 1..Len(input.fields) : ToLowerCase(input.fields[i].fieldName) = lowerName

\* the 0-based index of the lowercased name in the lowercased sort order
SortIndex(name, fieldSortOrder) ==
    IndexOf(MapSeq(ToLowerCase, fieldSortOrder), ToLowerCase(name))

\* the position in the input (the entrytype field last) of an output field
InputPosition(input, field) ==
    IF \E i \in 1..Len(input.fields) : input.fields[i] = field
    THEN CHOOSE i \in 1..Len(input.fields) : input.fields[i] = field
    ELSE Len(input.fields) + 1

\* the full set of entries of one content version under one sort order
FullCache(content, fieldSortOrder) ==
    CacheEntries(<<>>, bibtexParse(content).entries, fieldSortOrder)

\* the keys of the entries a content version gives
ContentKeys(content) == MapKeys(FullCache(content, <<>>))

\* the full caches of the content versions and sort orders of the lifecycle
FullCaches ==
    [content \in Contents \cup {NoContent}, order \in Orders |->
        FullCache(content, order)]

C2_LaterLoadWins ==
    LET last == Len(loads)
    IN  (/\ last >= 2
         /\ \A l \in 1..last : ~InFlight(l)
         /\ loads[last].overlap
         /\ loads[last].pc = "done")
        => \E order \in Orders : bibCache = FullCaches[loads[last].content, order]

\* C3 as stated: while a load has read the new content and not yet
\* repopulated the cache, no lookup of a key that was in the last cache
\* snapshot and is in the new content reports not-found.
C3_NoMissDuringReload ==
    registered =>
        \A l \in 1..Len(loads) :
            loads[l].pc = "read" =>
                \A key \in snapshotKeys \cap ContentKeys(loads[l].content) :
                    LookupResult(bibCache, key).outcome # "invalidKey"

\* C4 as stated: when a load fails (path not resolved, read thrown, parse
\* thrown) the cache is empty as that load finishes.
C4_FailedLoadLeavesEmpty ==
    [][\A l \in 1..Len(loads') :
          (/\ loads'[l].pc \in FailedPcs
           /\ (l > Len(loads) \/ loads[l].pc \notin FailedPcs))
          => bibCache' = <<>>]_vars

\* C5 as stated: once a load has found the path unresolved, and as long as
\* no load triggered after it has succeeded, every lookup reports not-found.
C5_NotFoundUntilLaterSuccess ==
    \A n \in 1..Len(loads) :
        (/\ loads[n].pc = "notFound"
         /\ \A m \in (n + 1)..Len(loads) : loads[m].pc # "done")
        => \A source \in Sources : LookupResult(bibCache, source).outcome # "found"

\* C6: after loading content in which two or more records share a citation
\* key, the cache has exactly one entry for that key, built from the record
\* that appears last.
C6_DuplicateKeyLastWins ==
    \A l \in 1..Len(loads) :
        loads[l].pc = "done" =>
            \A key \in {loads[l].content.records[i][1] :
                            i \in 1..Len(loads[l].content.records)} \ {<<>>} :
                LET dups == RecordsWithKey(loads[l].content, key)
                    last == CHOOSE i \in dups : \A j \in dups : j <= i
                IN  Cardinality(dups) >= 2 =>
                        /\ Cardinality({i \in 1..Len(bibCache) : bibCache[i][1] = key}) = 1
                        /\ MapGet(bibCache, key) =
                               CachedBibEntry(bibtexParse(loads[l].content).entries[last],
                                              settings.fieldSortOrder)

\* a content with a repeated key whose two records differ has been loaded
C6_Witness ==
    \E l \in 1..Len(loads) :
        /\ loads[l].pc = "done"
        /\ \E i, j \in 1..Len(loads[l].content.records) :
              /\ i < j
              /\ loads[l].content.records[i][1] = loads[l].content.records[j][1]
              /\ loads[l].content.records[i][1] # <<>>
              /\ loads[l].content.records[i][2] = "authored"
              /\ loads[l].content.records[j][2] = "edited"
        /\ Len(bibCache) = 1
        /\ Len(settings.fieldSortOrder) = 2

\* C7: every field in the output of formatAndSortBibtexFields has a name
\* whose lowercase form equals the lowercase form of an element of
\* fieldSortOrder, for a direct call and for every FormattedEntry of the cache.
C7_FilterCompleteness ==
    /\ fmtOut.called =>
          \A i \in 1..Len(fmtOut.result.fields) :
              InSortOrder(fmtOut.result.fields[i].fieldName, settings.fieldSortOrder)
    /\ \A cached \in CachedValues :
          \A i \in 1..Len(cached.formattedEntry.fields) :
              InSortOrder(cached.formattedEntry.fields[i].fieldName,
                          settings.fieldSortOrder)

\* a call that dropped a field and kept another
C7_Witness ==
    /\ fmtOut.called
    /\ Len(fmtOut.result.fields) >= 2
    /\ Len(fmtOut.result.fields) < Len(fmtIn.fields)
    /\ \E i \in 1..Len(fmtIn.fields) :
          ~InSortOrder(fmtIn.fields[i].fieldName, settings.fieldSortOrder)

\* C8: a surviving author field is the first field of the output and a
\* surviving editor is then placed by its sort-order position among the
\* others; with no surviving author a surviving editor is the first field.
C8_PrimaryField ==
    fmtOut.called =>
        LET out == fmtOut.result.fields
            order == settings.fieldSortOrder
            hasAuthor == Survives(fmtIn, AUTHOR, order)
            hasEditor == Survives(fmtIn, EDITOR, order)
        IN  /\ hasAuthor =>
                  /\ out # <<>>
                  /\ ToLowerCase(out[1].fieldName) = AUTHOR
            /\ (hasAuthor /\ hasEditor) =>
                  \A p \in 2..Len(out) :
                      ToLowerCase(out[p].fieldName) = EDITOR =>
                          \A q \in 2..Len(out) :
                              /\ q < p => SortIndex(out[q].fieldName, order)
                                              <= SortIndex(out[p].fieldName, order)
                              /\ q > p => SortIndex(out[q].fieldName, order)
                                              >= SortIndex(out[p].fieldName, order)
            /\ (~hasAuthor /\ hasEditor) =>
                  /\ out # <<>>
                  /\ ToLowerCase(out[1].fieldName) = EDITOR

\* author and editor both survive, editor stands before author in the
\* input and in the sort order, and another field lies between them
C8_Witness ==
    /\ fmtOut.called
    /\ Survives(fmtIn, AUTHOR, settings.fieldSortOrder)
    /\ Survives(fmtIn, EDITOR, settings.fieldSortOrder)
    /\ SortIndex(EDITOR, settings.fieldSortOrder) < SortIndex(AUTHOR, settings.fieldSortOrder)
    /\ ToLowerCase(fmtIn.fields[1].fieldName) = EDITOR
    /\ Len(fmtOut.result.fields) = 3
    /\ ToLowerCase(fmtOut.result.fields[3].fieldName) = EDITOR

\* the output positions after the primary field (all of them when there is
\* no primary field)
RestPositions ==
    IF Survives(fmtIn, AUTHOR, settings.fieldSortOrder)
       \/ Survives(fmtIn, EDITOR, settings.fieldSortOrder)
    THEN 2..Len(fmtOut.result.fields)
    ELSE 1..Len(fmtOut.result.fields)

\* C9: the fields after the primary field are in ascending order of the
\* index of their lowercased name in fieldSortOrder, and two fields with the
\* same index keep their relative input order.
C9_SortedStable ==
    fmtOut.called =>
        LET out == fmtOut.result.fields
            order == settings.fieldSortOrder
        IN  \A p, q \in RestPositions :
                p < q =>
                    /\ SortIndex(out[p].fieldName, order) <= SortIndex(out[q].fieldName, order)
                    /\ SortIndex(out[p].fieldName, order) = SortIndex(out[q].fieldName, order)
                           => InputPosition(fmtIn, out[p]) < InputPosition(fmtIn, out[q])

\* the sort moved a field forward and two fields of one name kept their order
C9_Witness ==
    /\ fmtOut.called
    /\ LET out == fmtOut.result.fields
       IN  /\ \E p, q \in RestPositions :
                 /\ p < q
                 /\ InputPosition(fmtIn, out[p]) > InputPosition(fmtIn, out[q])
           /\ \E p, q \in RestPositions :
                 /\ p < q
                 /\ out[p].fieldName = out[q].fieldName

\* the text the claim describes: bibkey and the displayed values, joined
\* with single spaces, lowercased
DisplayedText(formattedEntry) ==
    ToLowerCase(Join(<<formattedEntry.bibkey>>
                       \o [i \in 1..Len(formattedEntry.fields) |->
                              formattedEntry.fields[i].fieldValue],
                     SPACE))

\* C10: for every cache entry, searchableText is the lowercased,
\* single-space-joined bibkey and values of exactly the fields of its
\* formattedEntry.fields, in display order; a field hidden by the sort order
\* is not among them.
C10_SearchableText ==
    \A cached \in CachedValues :
        /\ cached.searchableText = DisplayedText(cached.formattedEntry)
        /\ \A i \in 1..Len(cached.formattedEntry.fields) :
              InSortOrder(cached.formattedEntry.fields[i].fieldName,
                          settings.fieldSortOrder)

\* an authored record is cached with its title and author displayed and its
\* note hidden
C10_Witness ==
    \E cached \in CachedValues :
        /\ Len(cached.formattedEntry.fields) = 2
        /\ cached.formattedEntry.fields[1].fieldName = AUTHOR
        /\ cached.formattedEntry.fields[2].fieldName = TITLE
        /\ cached.searchableText # Join(<<cached.formattedEntry.bibkey,
                                         cached.formattedEntry.fields[1].fieldValue,
                                         cached.formattedEntry.fields[2].fieldValue>>,
                                       SPACE)

\* ------------------------------------------------------- claims: suggester
\* the token occurs in the text inside one word: no separator is in it
TokenInWord(token, text) ==
    \E i \in 1..(Len(text) - Len(token) + 1) :
        /\ SubSeq(text, i, i + Len(token) - 1) = token
        /\ \A j \in i..(i + Len(token) - 1) : text[j] \notin WordSeparators

\* the positions of the cache whose entry has every token of the query in a
\* word of its searchableText
Matching(cache, contextQuery) ==
    LET tokens == QueryTokens(ToLowerCase(contextQuery))
    IN  {i \in 1..Len(cache) :
            \A t \in 1..Len(tokens) : TokenInWord(tokens[t], cache[i][2].searchableText)}

\* the query passes the tests before the matching: two characters or more,
\* and a letter or a digit in it
Tokenized(contextQuery) ==
    /\ Len(contextQuery) >= MIN_QUERY_LENGTH
    /\ \E i \in 1..Len(contextQuery) :
          LowerChar(contextQuery[i]) \in LowerSet \cup DigitSet

EntriesAt(cache, positions) == {cache[i][2].formattedEntry : i \in positions}
SetOf(seq) == {seq[i] : i \in 1..Len(seq)}

\* the first MAX_SUGGESTIONS matching positions, in the order of the cache
FirstMatching(cache, contextQuery) ==
    {i \in Matching(cache, contextQuery) :
        Cardinality({j \in Matching(cache, contextQuery) : j < i}) < MAX_SUGGESTIONS}

\* the cache of Scenario A
ScenarioACache == FullCache(ContentA, OrderDefault)

\* C11: getSuggestions returns only entries that have every query token in
\* a word of their searchableText, and every such entry when the query is
\* matched and fewer than 50 entries have them; on the entry of Scenario A
\* "doe 20" returns the entry and "smith" returns nothing.
C11_ReturnsTheMatches ==
    suggestions.called =>
        /\ SetOf(suggestions.result) \subseteq EntriesAt(bibCache, Matching(bibCache, query))
        /\ (Tokenized(query) /\ Cardinality(Matching(bibCache, query)) < MAX_SUGGESTIONS)
              => SetOf(suggestions.result) = EntriesAt(bibCache, Matching(bibCache, query))
        /\ (bibCache = ScenarioACache /\ query = <<"d","o","e"," ","2","0">>)
              => suggestions.result = <<ScenarioACache[1][2].formattedEntry>>
        /\ (bibCache = ScenarioACache /\ query = <<"s","m","i","t","h">>)
              => suggestions.result = <<>>

\* two tokens, each in a different word of the Scenario A entry, are found;
\* and a query of two tokens returns one entry of two
C11_Witness ==
    /\ suggestions.called
    /\ \/ /\ bibCache = ScenarioACache
          /\ query = <<"d","o","e"," ","2","0">>
          /\ Len(suggestions.result) = 1
       \/ /\ Len(QueryTokens(ToLowerCase(query))) = 2
          /\ Len(bibCache) = 2
          /\ Len(suggestions.result) = 1

\* C12: getSuggestions never returns more than 50 entries, what it returns
\* is in ascending order of bibkey, and the entries returned for a matched
\* query are the first 50 matches in the order of the cache.
C12_CappedThenSorted ==
    suggestions.called =>
        /\ Len(suggestions.result) <= MAX_SUGGESTIONS
        /\ \A i, j \in 1..Len(suggestions.result) :
              i < j => LocaleCompare(suggestions.result[i].bibkey,
                                     suggestions.result[j].bibkey) < 0
        /\ Tokenized(query)
              => SetOf(suggestions.result)
                     = EntriesAt(bibCache, FirstMatching(bibCache, query))

\* more than 50 entries match, 50 are returned, and not in cache order
C12_Witness ==
    /\ suggestions.called
    /\ Cardinality(Matching(bibCache, query)) > MAX_SUGGESTIONS
    /\ Len(suggestions.result) = MAX_SUGGESTIONS
    /\ suggestions.result[1] # bibCache[1][2].formattedEntry
    /\ bibCache[Len(bibCache)][2].formattedEntry \notin SetOf(suggestions.result)

\* C13: for every query, typed character and cache, the entries returned
\* for the query followed by the character are among those returned for
\* the query.
C13_Monotone ==
    suggestions.called =>
        \A c \in TypedChars :
            SetOf(getSuggestions(bibCache, Append(query, c)))
                \subseteq SetOf(suggestions.result)

\* C13 as amended: the same for a query of two characters or more that has
\* a letter or a digit and is matched by at most 50 entries of the cache.
C13_MonotoneWhenNotCut ==
    (/\ suggestions.called
     /\ Tokenized(query)
     /\ Cardinality(Matching(bibCache, query)) <= MAX_SUGGESTIONS) =>
        \A c \in TypedChars :
            SetOf(getSuggestions(bibCache, Append(query, c)))
                \subseteq SetOf(suggestions.result)

\* a typed character narrows a result of two entries to one
C13_Witness ==
    /\ suggestions.called
    /\ Tokenized(query)
    /\ Len(suggestions.result) = 2
    /\ \E c \in TypedChars : Len(getSuggestions(bibCache, Append(query, c))) = 1

\* C14: getSuggestions returns nothing for a query of fewer than 2
\* characters, whatever the cache holds, and for a query without a letter
\* or a digit.
C14_ShortOrTokenless ==
    (suggestions.called /\ ~Tokenized(query)) => suggestions.result = <<>>

\* one letter that is in an entry of the cache, and nothing is returned
C14_Witness ==
    /\ suggestions.called
    /\ Len(query) = 1
    /\ Matching(bibCache, query) # {}
    /\ suggestions.result = <<>>

\* --------------------------------------------------------- claims: lookup
\* C15: a run of the code block processor shows the placeholder alone for a
\* source that is blank after trimming, whatever the cache holds; the key
\* followed by the placeholder, as an error, for a key absent from the
\* cache; the key and the fields of the formatted entry for a key of the
\* cache; and the first two elements are never equal.
C15_ThreeOutcomes ==
    [][lastLookup' # lastLookup =>
        LET key == Trim(lastLookup'.source)
            shown == Render(lastLookup')
        IN  /\ key = <<>> =>
                  /\ shown.cls = CSS_BIBTEX_ERROR
                  /\ shown.children = <<Span(EMPTY_KEY_MSG, CSS_INVALID_KEY)>>
            /\ (key # <<>> /\ key \notin MapKeys(bibCache)) =>
                  /\ shown.cls = CSS_BIBTEX_ERROR
                  /\ Len(shown.children) = 3
                  /\ shown.children[1] = Span(key, CSS_INVALID_KEY)
                  /\ shown.children[3] = Span(EMPTY_KEY_MSG, CSS_INVALID_KEY)
                  /\ shown # Render(LookupResult(bibCache, <<>>))
            /\ key \in MapKeys(bibCache) =>
                  /\ shown.cls = CSS_BIBTEX_ENTRY
                  /\ shown.children[1] = Span(key, CSS_BIBKEY)
                  /\ Len(shown.children)
                        = 1 + 4 * Len(MapGet(bibCache, key).formattedEntry.fields)
                  /\ \A f \in 1..Len(MapGet(bibCache, key).formattedEntry.fields) :
                        /\ shown.children[4 * f - 1].text
                              = MapGet(bibCache, key).formattedEntry.fields[f].fieldName
                        /\ shown.children[4 * f + 1].text
                              = MapGet(bibCache, key).formattedEntry.fields[f].fieldValue
    ]_vars

\* a key that is not in a cache that holds entries was looked up
C15_Witness ==
    /\ lastLookup.outcome = "invalidKey"
    /\ lastLookup.bibkey = XYZ999
    /\ bibCache # <<>>

\* ---------------------------------------------------------- claims: reload
\* C16: a load that completes on the content and under the sort order of
\* the first load that completed leaves the cache that load left, however
\* many loads there were and whether or not they overlapped.
C16_ReloadIdempotent ==
    [][\A l \in 1..Len(loads) :
          (/\ loads[l].pc = "read"
           /\ loads'[l].pc = "done"
           /\ firstRun.done
           /\ loads[l].content = firstRun.content
           /\ settings.fieldSortOrder = firstRun.fieldSortOrder)
          => bibCache' = firstRun.cache
    ]_vars

\* two loads ran to completion one after the other on the same content
C16_Witness ==
    /\ Len(loads) >= 2
    /\ loads[1].pc = "done"
    /\ loads[2].pc = "done"
    /\ ~loads[2].overlap
    /\ loads[1].content = loads[2].content
    /\ firstRun.done
    /\ firstRun.fieldSortOrder = settings.fieldSortOrder
    /\ bibCache = firstRun.cache
    /\ Len(bibCache) >= 2

\* ------------------------------------------------------ claims: sort order
\* the cache holds entries that no content gives under the current order
Stale ==
    /\ bibCache # <<>>
    /\ \A content \in Contents : bibCache # FullCaches[content, settings.fieldSortOrder]

\* the step completes the parse of a load
Rebuilds == \E l \in 1..Len(loads) : loads[l].pc = "read" /\ loads'[l].pc # "read"

ContentTexts ==
    [content \in {ContentText(texts) : texts \in RegexTexts} |->
        CHOOSE texts \in RegexTexts : ContentText(texts) = content]

TextsRead == ContentTexts[rawContent]

\* how deep the braces inside a value nest
NestingOf(inner) ==
    IF inner = <<>> THEN 0
    ELSE LET depths == {Balance(inner, 1, j) : j \in 1..Len(inner)}
         IN  CHOOSE d \in depths : \A e \in depths : e <= d

\* the braces of the value are balanced
BalancedValue(inner) ==
    /\ Balance(inner, 1, Len(inner)) = 0
    /\ \A j \in 1..Len(inner) : Balance(inner, 1, j) >= 0

\* no value of the entry nests braces inside inner braces
Shallow(entry) ==
    \A f \in 1..Len(entry.fields) : NestingOf(entry.fields[f].inner) <= 1

\* the entry has a key of letters, digits, "_", "." and "-", a comma right
\* after the key and at least one field
Regular(entry) ==
    /\ entry.key # <<>>
    /\ \A j \in 1..Len(entry.key) : entry.key[j] \in KeyChars
    /\ entry.afterKey = <<>>
    /\ entry.fields # <<>> \/ ~entry.closed

\* C18: after a load of a text that holds well-formed entries together with
\* an entry that misses its closing brace, every well-formed entry is in the
\* Map under its key, with its own text, and the processor finds it, and no
\* entry that misses its closing brace is in the Map, wherever it stands
\* (the well-formed entries are those with a key of the key characters, a
\* field, and values that nest braces at most once inside the value; the
\* other entries are what the claims on keys, on entries without fields and
\* on nested values are about).
C18_EntryLocal ==
    (/\ entriesLoaded
     /\ \E i \in 1..Len(TextsRead) : ~TextsRead[i].closed
     /\ \E i \in 1..Len(TextsRead) : TextsRead[i].closed
     /\ \A i \in 1..Len(TextsRead) : Shallow(TextsRead[i]) /\ Regular(TextsRead[i]))
    => \A i \in 1..Len(TextsRead) :
          IF TextsRead[i].closed
          THEN /\ MapHas(bibEntries, TextsRead[i].key)
               /\ MapGet(bibEntries, TextsRead[i].key) = EntryText(TextsRead[i])
               /\ ProcessorResult(bibEntries, TextsRead[i].key,
                                  settings.fieldSortOrder).found
          ELSE ~MapHas(bibEntries, TextsRead[i].key)

\* the fields the processor shows for an entry of the text: those of the
\* sort order, with the value between the delimiters
ShownFields(entry, fieldSortOrder) ==
    formatAndSortBibtexFields(
        [entryType |-> entry.type, bibkey |-> entry.key,
         fields |-> [f \in 1..Len(entry.fields) |->
                        Field(entry.fields[f].name, entry.fields[f].inner)]],
        fieldSortOrder).fields

\* the entry has a value with balanced inner braces
HasNestedValue(entry) ==
    \E f \in 1..Len(entry.fields) :
        /\ entry.fields[f].open = "{"
        /\ NestingOf(entry.fields[f].inner) >= 1
        /\ BalancedValue(entry.fields[f].inner)

\* C19: after a load of a text of well-formed entries, every entry that has
\* a value with balanced inner braces is in the Map, and what the processor
\* shows for its key has one field for each field of the entry, each with
\* its whole value.
C19_NestedValueOneField ==
    (/\ entriesLoaded
     /\ \A i \in 1..Len(TextsRead) : TextsRead[i].closed /\ Regular(TextsRead[i]))
    => \A i \in 1..Len(TextsRead) :
          HasNestedValue(TextsRead[i]) =>
              /\ MapHas(bibEntries, TextsRead[i].key)
              /\ ProcessorResult(bibEntries, TextsRead[i].key,
                                 settings.fieldSortOrder).found
              /\ ProcessorResult(bibEntries, TextsRead[i].key,
                                 settings.fieldSortOrder).result.fields
                     = ShownFields(TextsRead[i], settings.fieldSortOrder)

\* the value has no brace
NoBraces(value) == \A j \in 1..Len(value) : value[j] \notin {"{", "}"}

\* C20: every value the processor shows for a field of an entry, which was
\* written between braces or quotes, has no brace left, and normalizing it
\* again leaves it as it is.
C20_NormalizedOnce ==
    (parsedEntry.called /\ parsedEntry.found)
    => \A f \in 1..Len(parsedEntry.result.fields) :
          parsedEntry.result.fields[f].fieldName # ENTRYTYPE =>
              /\ NoBraces(parsedEntry.result.fields[f].fieldValue)
              /\ StripDelimiters(parsedEntry.result.fields[f].fieldValue)
                     = parsedEntry.result.fields[f].fieldValue

\* ------------------------------------------------------------ claims: keys
\* the characters of a citation key: [A-Za-z0-9_.-]
CitationKeyChars ==
    {LowerLetters[i] : i \in 1..Len(LowerLetters)}
        \cup {UpperLetters[i] : i \in 1..Len(UpperLetters)}
        \cup {DigitChars[i] : i \in 1..Len(DigitChars)} \cup {"_", ".", "-"}

IsCitationKey(key) ==
    key # <<>> /\ \A j \in 1..Len(key) : key[j] \in CitationKeyChars

\* the entry is closed, has the comma after its key, and its values nest
\* braces at most once inside the value: entryRegex matches it by itself
MatchedAlone(entry) ==
    /\ entry.closed
    /\ Shallow(entry)
    /\ entry.key # <<>>
    /\ entry.fields # <<>> \/ entry.afterKey # <<>>

PlainOrEmpty(entry) ==
    /\ entry.closed
    /\ Shallow(entry)
    /\ IsCitationKey(entry.key)
    /\ entry.afterKey = <<>> \/ (entry.afterKey = <<",">> /\ entry.fields = <<>>)

\* C22: after a load of a text of such entries, every entry is in the Map
\* under its key with its own text, those after an entry without fields
\* included, and the processor shows for an entry without fields its key
\* and no field of the text.
C22_EmptyEntryLoaded ==
    (/\ entriesLoaded
     /\ \A i \in 1..Len(TextsRead) : PlainOrEmpty(TextsRead[i]))
    => \A i \in 1..Len(TextsRead) :
          /\ MapHas(bibEntries, TextsRead[i].key)
          /\ MapGet(bibEntries, TextsRead[i].key) = EntryText(TextsRead[i])
          /\ TextsRead[i].fields = <<>> =>
                /\ ProcessorResult(bibEntries, TextsRead[i].key,
                                   settings.fieldSortOrder).found
                /\ ProcessorResult(bibEntries, TextsRead[i].key,
                                   settings.fieldSortOrder).result.bibkey
                       = TextsRead[i].key
                /\ ProcessorResult(bibEntries, TextsRead[i].key,
                                   settings.fieldSortOrder).result.fields
                       = ShownFields(TextsRead[i], settings.fieldSortOrder)

\* -------------------------------------------------------- claims: creators
COMMA_SEP == <<",", " ">>

\* "family, given" when the creator has both parts, the one part when it
\* has one, the name of the institution when it has neither
FamilyGiven(creator) ==
    IF "lastName" \in creator.has /\ "firstName" \in creator.has
    THEN creator.lastName \o COMMA_SEP \o creator.firstName
    ELSE IF "lastName" \in creator.has THEN creator.lastName
    ELSE IF "firstName" \in creator.has THEN creator.firstName
    ELSE creator.name

\* the record of the content that the entry of the key is built from
LastRecordOf(content, key) ==
    CHOOSE i \in RecordsWithKey(content, key) :
        \A j \in RecordsWithKey(content, key) : j <= i

\* C23: after a load, every displayed field of a cached entry that the
\* library gave as a list of creators has as its value the creators as
\* "family, given", or the one part a creator has, or the name of the
\* institution, joined with " and ".
C23_CreatorsFamilyGiven ==
    \A l \in 1..Len(loads) :
        loads[l].pc = "done" =>
            \A m \in 1..Len(bibCache) :
                LET given == bibtexParse(loads[l].content).entries[
                                 LastRecordOf(loads[l].content, bibCache[m][1])].fields
                    shown == bibCache[m][2].formattedEntry.fields
                IN  \A f \in 1..Len(shown) : \A g \in 1..Len(given) :
                        (/\ given[g].value.kind = "creators"
                         /\ ToLowerCase(given[g].fieldName) = shown[f].fieldName)
                        => shown[f].fieldValue
                               = Join(MapSeq(FamilyGiven, given[g].value.list), AND_SEP)

\* ------------------------------------------------- claims: modify events
\* C24: a 'modify' event for a path that is not the configured one starts
\* no load and leaves the cache, the loads and the settings as they are; an
\* event that starts a load is for the configured path, and an event for the
\* configured path starts one.
C24_OnlyConfiguredPathLoads ==
    [][\A path \in {BibPath, NotePath} :
          ModifyEvent(path) =>
              /\ path # settings.bibFilePath
                     => UNCHANGED <<bibCache, loads, settings, snapshotKeys>>
              /\ Len(loads') > Len(loads) => path = settings.bibFilePath
              /\ path = settings.bibFilePath
                     => /\ Len(loads') = Len(loads) + 1
                        /\ ~loads'[Len(loads')].layout
                        /\ settings' = settings]_vars

\* an event for a note was handled while the cache held entries of the
\* configured file
C24_Witness ==
    /\ modified.seen
    /\ modified.path = NotePath
    /\ modified.bibFilePath = BibPath
    /\ modified.cached > 0
    /\ bibCache # <<>>

\* ------------------------------------------- claims: fields kept and placed
\* how often a field stands in a sequence of fields
Occurrences(field, fields) == Cardinality({i \in 1..Len(fields) : fields[i] = field})

\* the fields given to the call and the entrytype field of the entry
GivenFields == Append(fmtIn.fields, Field(ENTRYTYPE, fmtIn.entryType))

\* C25: the output of formatAndSortBibtexFields holds exactly the input
\* fields, and the entrytype field, whose lowercased name is in
\* fieldSortOrder: each as often as it was given, with its name and value as
\* given, and nothing else; the call changes neither the input sequence nor
\* the settings.
C25_FieldsKeptOnce ==
    /\ [](fmtOut.called =>
            /\ \A i \in 1..Len(GivenFields) :
                  Occurrences(GivenFields[i], fmtOut.result.fields)
                      = IF InSortOrder(GivenFields[i].fieldName, settings.fieldSortOrder)
                        THEN Occurrences(GivenFields[i], GivenFields)
                        ELSE 0
            /\ \A p \in 1..Len(fmtOut.result.fields) :
                  Occurrences(fmtOut.result.fields[p], GivenFields) > 0)
    /\ [][fmtOut' # fmtOut => fmtIn' = fmtIn /\ settings' = settings]_vars

\* a call that kept three fields, the entrytype field among them, moved one
\* and dropped one
C25_Witness ==
    /\ fmtOut.called
    /\ Len(fmtIn.fields) = 3
    /\ Len(fmtOut.result.fields) = 3
    /\ \E p \in 1..2 : fmtOut.result.fields[p].fieldName = ENTRYTYPE
    /\ fmtOut.result.fields[1] # fmtIn.fields[1]

\* the output positions of the entrytype field
EntryTypePositions(fields) == {p \in 1..Len(fields) : fields[p].fieldName = ENTRYTYPE}

\* C26: the output of formatAndSortBibtexFields has the entrytype field
\* exactly when fieldSortOrder lists entrytype in some letter case; it is
\* there once, its value is the type of the entry, and it stands after the
\* primary field at the place its index in fieldSortOrder gives it among the
\* other fields. The same holds for the entries of the cache.
C26_EntryTypeField ==
    /\ fmtOut.called =>
          LET out == fmtOut.result.fields
              order == settings.fieldSortOrder
          IN  /\ EntryTypePositions(out) # {} <=> InSortOrder(ENTRYTYPE, order)
              /\ Cardinality(EntryTypePositions(out)) <= 1
              /\ \A p \in EntryTypePositions(out) :
                    /\ out[p].fieldValue = fmtIn.entryType
                    /\ p \in RestPositions
                    /\ \A q \in RestPositions :
                          /\ q < p => SortIndex(out[q].fieldName, order)
                                          <= SortIndex(ENTRYTYPE, order)
                          /\ q > p => SortIndex(out[q].fieldName, order)
                                          >= SortIndex(ENTRYTYPE, order)
    /\ \A cached \in CachedValues :
          LET out == cached.formattedEntry.fields
          IN  /\ EntryTypePositions(out) # {}
                     <=> InSortOrder(ENTRYTYPE, settings.fieldSortOrder)
              /\ \A p \in EntryTypePositions(out) :
                    out[p].fieldValue = cached.formattedEntry.entryType

\* the order lists EntryType between two names, and the entrytype field
\* stands between the primary field and a field of the later name
C26_Witness ==
    /\ fmtOut.called
    /\ ENTRYTYPE \notin {settings.fieldSortOrder[j] : j \in 1..Len(settings.fieldSortOrder)}
    /\ SortIndex(ENTRYTYPE, settings.fieldSortOrder) = 1
    /\ Len(fmtOut.result.fields) = 3
    /\ ToLowerCase(fmtOut.result.fields[1].fieldName) = AUTHOR
    /\ EntryTypePositions(fmtOut.result.fields) = {2}
    /\ SortIndex(fmtOut.result.fields[3].fieldName, settings.fieldSortOrder) = 2

\* ------------------------------------------------- claims: query tokens
\* letters that are not among a-z, in their lowercase form
OtherLetters == {"ü", "ö"}
Letters == LowerSet \cup OtherLetters

\* s[a..b] is a maximal run of characters of the class
IsRun(s, a, b, class) ==
    /\ a <= b
    /\ \A i \in a..b : s[i] \in class
    /\ a = 1 \/ s[a - 1] \notin class
    /\ b = Len(s) \/ s[b + 1] \notin class

\* the maximal runs of the classes in s, in the order they start
RunsOf(s, classes) ==
    LET runs == {r \in (1..Len(s)) \X (1..Len(s)) :
                    \E class \in classes : IsRun(s, r[1], r[2], class)}
        nth(k) == CHOOSE r \in runs : Cardinality({q \in runs : q[1] < r[1]}) = k - 1
    IN  [k \in 1..Cardinality(runs) |-> SubSeq(s, nth(k)[1], nth(k)[2])]

\* C27: the tokens of a query are the maximal runs of letters and the
\* maximal runs of digits of its lowercase form, in the order they stand in
\* it; white space and every other character end a run and are in no token.
C27_TokensAreRuns ==
    suggestions.called =>
        QueryTokens(ToLowerCase(query)) = RunsOf(ToLowerCase(query), {Letters, DigitSet})

\* the same for the letters a-z alone
TokensAreAsciiRuns ==
    suggestions.called =>
        QueryTokens(ToLowerCase(query)) = RunsOf(ToLowerCase(query), {LowerSet, DigitSet})

\* the two queries of the claim were tokenized as it says
TokensOfTheExamples ==
    /\ QueryTokens(<<"k","n","u","t","h","8","4">>) = <<<<"k","n","u","t","h">>, <<"8","4">>>>
    /\ QueryTokens(<<"d","o","e"," ","2","0">>) = <<<<"d","o","e">>, <<"2","0">>>>

\* ------------------------------------------- claims: entries without header
\* the text begins with "@", a word, white space or none, "{", and a comma
\* stands later with something that is not a comma before it
HasHeader(entry) ==
    \E w \in 3..Len(entry) : \E o \in w..Len(entry) : \E c \in (o + 2)..Len(entry) :
        /\ entry[1] = "@"
        /\ \A i \in 2..(w - 1) : entry[i] \in WordChars
        /\ \A i \in w..(o - 1) : entry[i] \in WhiteSpace
        /\ entry[o] = "{"
        /\ entry[c] = ","
        /\ \A i \in (o + 1)..(c - 1) : entry[i] # ","

\* the keys of the Map whose entry has a header and is matched by the query
ServedKeys ==
    {k \in MapKeys(bibEntries) :
        /\ HasHeader(MapGet(bibEntries, k))
        /\ IsMatch(QueryTokens(ToLowerCase(query)),
                   EntryWords(SearchableText(
                       formatAndSortBibtexEntry(MapGet(bibEntries, k),
                                                settings.fieldSortOrder).result,
                       settings.fieldSortOrder)))}

\* C28: formatAndSortBibtexEntry returns null for a text without a header
\* and an entry for a text with one; the code block processor shows a key
\* of the Map as found exactly when its entry has a header, and does so for
\* every such key; the suggestions are entries of the Map that have a
\* header, and every such entry that the query matches is among them.
C28_NullForNoHeader ==
    /\ (parsedEntry.called /\ parsedEntry.direct)
           => (parsedEntry.found <=> HasHeader(parsedEntry.source))
    /\ (parsedEntry.called /\ ~parsedEntry.direct)
           => (parsedEntry.found
                  <=> /\ MapHas(bibEntries, Trim(parsedEntry.source))
                      /\ HasHeader(MapGet(bibEntries, Trim(parsedEntry.source))))
    /\ \A k \in MapKeys(bibEntries) :
           HasHeader(MapGet(bibEntries, k))
               => ProcessorResult(bibEntries, k, settings.fieldSortOrder).found
    /\ suggestions.called =>
           /\ \A r \in 1..Len(suggestions.result) :
                 \E k \in ServedKeys :
                     suggestions.result[r]
                         = formatAndSortBibtexEntry(MapGet(bibEntries, k),
                                                    settings.fieldSortOrder).result
           /\ Len(suggestions.result) = Cardinality(ServedKeys)

\* the formatter gave null for a text without a comma after its key, while
\* the suggester had served the entries of the Map
C28_Witness ==
    /\ parsedEntry.called
    /\ parsedEntry.direct
    /\ ~parsedEntry.found
    /\ parsedEntry.source = EntryText(BareEntry)
    /\ suggestions.called
    /\ Len(suggestions.result) = 2

\* ------------------------------------------------ claims: key and shown key
\* the key of the Map and the key of the formatted entry, latest revision
CacheKeyAgrees ==
    \A i \in 1..Len(bibCache) : bibCache[i][2].formattedEntry.bibkey = bibCache[i][1]

\* the same for the Map of the given texts alone
KeyAgreesFor(entries) ==
    (entriesLoaded /\ \A i \in 1..Len(TextsRead) : TextsRead[i] \in entries)
    => \A k \in MapKeys(bibEntries) :
           formatAndSortBibtexEntry(MapGet(bibEntries, k),
                                    settings.fieldSortOrder).result.bibkey = k

\* entries with a key of letters and digits, the comma right after it
KeyAgreesWhenPlain ==
    KeyAgreesFor({PlainEntry, NestedEntry, DeepEntry, QuotedEntry, DoubleEntry, CommaEntry})

\* an entry whose key is followed by a space and the comma, beside a plain one
KeyAgreesWhenSpaced == KeyAgreesFor({SpacedKeyEntry, PlainEntry})

\* C29: for every key of the Map, the entry of that key is formatted to an
\* entry, and the key of the formatted entry, which is the key shown and the
\* key a suggestion inserts, is the key of the Map.
C29_ShownKeyIsMapKey ==
    /\ CacheKeyAgrees
    /\ entriesLoaded =>
          \A k \in MapKeys(bibEntries) :
              /\ formatAndSortBibtexEntry(MapGet(bibEntries, k),
                                          settings.fieldSortOrder).found
              /\ formatAndSortBibtexEntry(MapGet(bibEntries, k),
                                          settings.fieldSortOrder).result.bibkey = k

\* ------------------------------------------------------- claims: unload
\* C30: once onunload has run the cache is empty, and it stays empty: the
\* continuation of a load that was waiting for the read puts nothing in it.
C30_EmptyAfterUnload == unloaded => bibCache = <<>>

\* the cache is empty in the state onunload leaves
EmptyRightAfterUnload == [][unloaded' /\ ~unloaded => bibCache' = <<>>]_vars

====
